---- MODULE Spec2Model ----
(***************************************************************************)
(* A model of backend/aggregation.py: the voting methods (plurality,      *)
(* Borda, confidence-weighted Borda, Copeland, ranked pairs), result      *)
(* selection and the agreement analysis; and of the job orchestration of  *)
(* backend/automation.py with the status stream of backend/main.py.       *)
(*                                                                         *)
(* Conventions.                                                            *)
(*  - A Python list is a sequence; Python's 0-based position p is the      *)
(*    1-based index p + 1, and every formula that uses a position          *)
(*    subtracts 1 again.                                                   *)
(*  - A Python dict is a record [keys, val]: keys is the sequence of its   *)
(*    keys in insertion order (the order Python iterates them in), val    *)
(*    the function from the key set to the values.                         *)
(*  - Numbers are exact.  Copeland scores are counted in half points      *)
(*    (the value 3 stands for 1.5); a ratio is a pair <<num, den>>.        *)
(***************************************************************************)
EXTENDS Integers, Sequences, FiniteSets, TLC

\* rankings, candidates: the arguments of a call of a scoring or analysis function
\* score_map:            the argument of a call of get_winner or get_ranking
\* op, result:           the function that has returned and what it returned
\* pairs, locked, idx:   the locals of ranked_pairs during the lock-in
\* calls:                the same per caller, where several callers share the arguments
\* jobs:                 the registry of automation.py, a JobProgress per job id
\* tasks:                the coroutine of every job that was started, with its locals
\* now:                  the clock
\* stream:               the locals of automation_event_generator and the events it sent
VARIABLES rankings, candidates, score_map, op, result, pairs, locked, idx, calls,
          jobs, tasks, now, stream

vars == <<rankings, candidates, score_map, op, result, pairs, locked, idx, calls,
          jobs, tasks, now, stream>>

\* the state of the job orchestration (automation.py, main.py): the registry jobs,
\* the background tasks, the clock and the status stream of a client
jobvars == <<jobs, tasks, now, stream>>

\* the state of the calls of the aggregation functions
corevars == <<rankings, candidates, score_map, op, result, pairs, locked, idx, calls>>

\* a status stream that no client has opened
IdleStream ==
    [pc |-> "idle", job_id |-> "", last_snapshot |-> <<>>, last_results_len |-> 0,
     polls |-> 0, sent |-> <<>>]

\* no job was ever started, no stream is open
NoJobs ==
    /\ jobs = [j \in {} |-> 0]
    /\ tasks = [j \in {} |-> 0]
    /\ now = 0
    /\ stream = IdleStream

(***************************************************************************)
(* Bounds of the model and the input universe.                             *)
(***************************************************************************)
MaxPrefs == 1
MaxLen == 2
MaxCands == 3
MaxBallots == 3
MaxWeighted == 2
MaxKeys == 4
MaxScore == 2
MaxRated == 2
MaxMentions == 3
MaxTallied == 2
MaxJobs == 2
MaxModels == 2
MaxRounds == 1
MaxTime == 2
MaxPolls == 4
MaxCallers == 2

IDOrder == <<"A", "B", "C">>

IDs == {"A", "B", "C"}

JudgeNames == <<"J1", "J2", "J3", "J4">>

RECURSIVE SeqsUpTo(_, _)
SeqsUpTo(S, n) ==
    IF n = 0 THEN {<<>>}
    ELSE LET shorter == SeqsUpTo(S, n - 1)
         IN  shorter \cup {Append(s, x) : s \in {t \in shorter : Len(t) = n - 1}, x \in S}

Range(s) == {s[i] : i \in DOMAIN s}

(***************************************************************************)
(* Python list primitives.                                                 *)
(***************************************************************************)
\* x in s
Contains(s, x) == \E i \in DOMAIN s : s[i] = x

\* s.index(x): the first position of x, 1-based here
IndexOf(s, x) == CHOOSE i \in DOMAIN s : s[i] = x /\ \A j \in 1..(i - 1) : s[j] # x

\* s[i+1:] for the 1-based index i of the current element
After(s, i) == SubSeq(s, i + 1, Len(s))

(***************************************************************************)
(* Python dict primitives.                                                 *)
(***************************************************************************)
EmptyDict == [keys |-> <<>>, val |-> <<>>]

HasKey(d, k) == k \in DOMAIN d.val

\* d[k] = v
DictSet(d, k, v) ==
    IF HasKey(d, k) THEN [d EXCEPT !.val[k] = v]
    ELSE [keys |-> Append(d.keys, k), val |-> d.val @@ (k :> v)]

\* d.get(k, default)
DictGet(d, k, default) == IF HasKey(d, k) THEN d.val[k] ELSE default

\* dict.fromkeys(s, v)
RECURSIVE FromKeysFrom(_, _, _, _)
FromKeysFrom(d, s, v, i) ==
    IF i > Len(s) THEN d ELSE FromKeysFrom(DictSet(d, s[i], v), s, v, i + 1)

FromKeys(s, v) == FromKeysFrom(EmptyDict, s, v, 1)

\* Counter(items)
RECURSIVE CounterFrom(_, _, _)
CounterFrom(d, items, i) ==
    IF i > Len(items) THEN d
    ELSE CounterFrom(DictSet(d, items[i], DictGet(d, items[i], 0) + 1), items, i + 1)

Counter(items) == CounterFrom(EmptyDict, items, 1)

KeySet(d) == Range(d.keys)

(***************************************************************************)
(* plurality                                                               *)
(***************************************************************************)
\* a variant that takes the last entry of every order instead of the first
RECURSIVE FirstPlacesLast(_)
FirstPlacesLast(rs) ==
    IF rs = <<>> THEN <<>>
    ELSE IF Head(rs).rankings # <<>>
         THEN <<Head(rs).rankings[Len(Head(rs).rankings)]>> \o FirstPlacesLast(Tail(rs))
         ELSE FirstPlacesLast(Tail(rs))

\* [r.rankings[0] for r in rankings if r.rankings]
RECURSIVE FirstPlaces(_)
FirstPlaces(rs) ==
    IF rs = <<>> THEN <<>>
    ELSE IF Head(rs).rankings # <<>>
         THEN <<Head(rs).rankings[1]>> \o FirstPlaces(Tail(rs))
         ELSE FirstPlaces(Tail(rs))

\* {c: float(counts.get(c, 0)) for c in candidates}
RECURSIVE PadCounts(_, _, _, _)
PadCounts(d, counts, cands, i) ==
    IF i > Len(cands) THEN d
    ELSE PadCounts(DictSet(d, cands[i], DictGet(counts, cands[i], 0)), counts, cands, i + 1)

\* a variant that returns the Counter itself, without the padding to the candidates
plurality_unpadded(rs, cands) == Counter(FirstPlaces(rs))

plurality(rs, cands) == PadCounts(EmptyDict, Counter(FirstPlaces(rs)), cands, 1)

(***************************************************************************)
(* borda_count                                                             *)
(***************************************************************************)
\* a variant that pays a candidate for its first mention in an order only
RECURSIVE BordaOrderOnce(_, _, _, _)
BordaOrderOnce(scores, order, n, i) ==
    IF i > Len(order) THEN scores
    ELSE BordaOrderOnce(
           IF HasKey(scores, order[i]) /\ \A k \in 1..(i - 1) : order[k] # order[i]
           THEN DictSet(scores, order[i], scores.val[order[i]] + (n - 1 - (i - 1)))
           ELSE scores,
           order, n, i + 1)

\* the inner loop: for position, candidate_id in enumerate(ranking.rankings)
RECURSIVE BordaOrder(_, _, _, _)
BordaOrder(scores, order, n, i) ==
    IF i > Len(order) THEN scores
    ELSE BordaOrder(
           IF HasKey(scores, order[i])
           THEN DictSet(scores, order[i], scores.val[order[i]] + (n - 1 - (i - 1)))
           ELSE scores,
           order, n, i + 1)

\* the outer loop: for ranking in rankings
RECURSIVE BordaLoop(_, _, _)
BordaLoop(scores, rs, n) ==
    IF rs = <<>> THEN scores
    ELSE BordaLoop(BordaOrder(scores, Head(rs).rankings, n, 1), Tail(rs), n)

\* a variant that hands out n points for first place instead of n - 1
borda_count_n_first(rs, cands) == BordaLoop(FromKeys(cands, 0), rs, Len(cands) + 1)

borda_count(rs, cands) == BordaLoop(FromKeys(cands, 0), rs, Len(cands))

(***************************************************************************)
(* weighted_borda                                                          *)
(***************************************************************************)
\* a variant that clamps the confidence to [0, 1] before it multiplies
RECURSIVE WeightedOrderClamped(_, _, _, _, _)
WeightedOrderClamped(scores, order, n, weight, i) ==
    IF i > Len(order) THEN scores
    ELSE WeightedOrderClamped(
           IF HasKey(scores, order[i])
           THEN DictSet(scores, order[i],
                        scores.val[order[i]]
                          + (n - 1 - (i - 1)) * (IF weight < 0 THEN 0 ELSE IF weight > 1 THEN 1 ELSE weight))
           ELSE scores,
           order, n, weight, i + 1)

\* the inner loop: for position, candidate_id in enumerate(ranking.rankings)
RECURSIVE WeightedOrder(_, _, _, _, _)
WeightedOrder(scores, order, n, weight, i) ==
    IF i > Len(order) THEN scores
    ELSE WeightedOrder(
           IF HasKey(scores, order[i])
           THEN DictSet(scores, order[i], scores.val[order[i]] + (n - 1 - (i - 1)) * weight)
           ELSE scores,
           order, n, weight, i + 1)

RECURSIVE WeightedLoop(_, _, _)
WeightedLoop(scores, rs, n) ==
    IF rs = <<>> THEN scores
    ELSE WeightedLoop(WeightedOrder(scores, Head(rs).rankings, n, Head(rs).confidence, 1),
                      Tail(rs), n)

weighted_borda(rs, cands) == WeightedLoop(FromKeys(cands, 0), rs, Len(cands))

(***************************************************************************)
(* copeland_score (scores in half points)                                  *)
(***************************************************************************)
\* returns <<c1_preferred, c2_preferred>>
RECURSIVE CountPairwiseFrom(_, _, _, _, _)
CountPairwiseFrom(rs, c1, c2, c1_preferred, c2_preferred) ==
    IF rs = <<>> THEN <<c1_preferred, c2_preferred>>
    ELSE LET order == Head(rs).rankings
         IN  IF Contains(order, c1) /\ Contains(order, c2)
             THEN LET pos1 == IndexOf(order, c1)
                      pos2 == IndexOf(order, c2)
                  IN  IF pos1 < pos2
                      THEN CountPairwiseFrom(Tail(rs), c1, c2, c1_preferred + 1, c2_preferred)
                      ELSE IF pos2 < pos1
                      THEN CountPairwiseFrom(Tail(rs), c1, c2, c1_preferred, c2_preferred + 1)
                      ELSE CountPairwiseFrom(Tail(rs), c1, c2, c1_preferred, c2_preferred)
             ELSE CountPairwiseFrom(Tail(rs), c1, c2, c1_preferred, c2_preferred)

\* a variant that also counts a preference that mentions only one of the two, in
\* favour of the one it mentions
RECURSIVE CountPairwiseAnyFrom(_, _, _, _, _)
CountPairwiseAnyFrom(rs, c1, c2, c1_preferred, c2_preferred) ==
    IF rs = <<>> THEN <<c1_preferred, c2_preferred>>
    ELSE LET order == Head(rs).rankings
             pos1 == IF Contains(order, c1) THEN IndexOf(order, c1) ELSE Len(order) + 1
             pos2 == IF Contains(order, c2) THEN IndexOf(order, c2) ELSE Len(order) + 1
         IN  IF pos1 < pos2
             THEN CountPairwiseAnyFrom(Tail(rs), c1, c2, c1_preferred + 1, c2_preferred)
             ELSE IF pos2 < pos1
             THEN CountPairwiseAnyFrom(Tail(rs), c1, c2, c1_preferred, c2_preferred + 1)
             ELSE CountPairwiseAnyFrom(Tail(rs), c1, c2, c1_preferred, c2_preferred)

count_pairwise_any(rs, c1, c2) == CountPairwiseAnyFrom(rs, c1, c2, 0, 0)

count_pairwise_preferences(rs, c1, c2) == CountPairwiseFrom(rs, c1, c2, 0, 0)

\* a variant that awards a full point to each side of a tie
award_full_ties(wins, c1, c2, c1_preferred, c2_preferred) ==
    IF c1_preferred > c2_preferred THEN DictSet(wins, c1, wins.val[c1] + 2)
    ELSE IF c2_preferred > c1_preferred THEN DictSet(wins, c2, wins.val[c2] + 2)
    ELSE LET w1 == DictSet(wins, c1, wins.val[c1] + 2)
         IN  DictSet(w1, c2, w1.val[c2] + 2)

\* a variant that credits the loser of the comparison
award_swapped(wins, c1, c2, c1_preferred, c2_preferred) ==
    IF c1_preferred > c2_preferred THEN DictSet(wins, c2, wins.val[c2] + 2)
    ELSE IF c2_preferred > c1_preferred THEN DictSet(wins, c1, wins.val[c1] + 2)
    ELSE LET w1 == DictSet(wins, c1, wins.val[c1] + 1)
         IN  DictSet(w1, c2, w1.val[c2] + 1)

\* wins in half points: += 1 is + 2, += 0.5 is + 1
award_pairwise_points(wins, c1, c2, c1_preferred, c2_preferred) ==
    IF c1_preferred > c2_preferred THEN DictSet(wins, c1, wins.val[c1] + 2)
    ELSE IF c2_preferred > c1_preferred THEN DictSet(wins, c2, wins.val[c2] + 2)
    ELSE LET w1 == DictSet(wins, c1, wins.val[c1] + 1)
         IN  DictSet(w1, c2, w1.val[c2] + 1)

\* the inner loop: for c2 in candidates[i+1:]
RECURSIVE CopelandInner(_, _, _, _, _)
CopelandInner(wins, rs, c1, rest, j) ==
    IF j > Len(rest) THEN wins
    ELSE LET cnt == count_pairwise_preferences(rs, c1, rest[j])
         IN  CopelandInner(award_pairwise_points(wins, c1, rest[j], cnt[1], cnt[2]),
                           rs, c1, rest, j + 1)

\* the outer loop: for i, c1 in enumerate(candidates)
RECURSIVE CopelandOuter(_, _, _, _)
CopelandOuter(wins, rs, cands, i) ==
    IF i > Len(cands) THEN wins
    ELSE CopelandOuter(CopelandInner(wins, rs, cands[i], After(cands, i), 1), rs, cands, i + 1)

\* a variant whose inner loop runs over all candidates, not over candidates[i+1:]
RECURSIVE CopelandOuterAll(_, _, _, _)
CopelandOuterAll(wins, rs, cands, i) ==
    IF i > Len(cands) THEN wins
    ELSE CopelandOuterAll(CopelandInner(wins, rs, cands[i], cands, 1), rs, cands, i + 1)

copeland_score_all_pairs(rs, cands) == CopelandOuterAll(FromKeys(cands, 0), rs, cands, 1)

copeland_score(rs, cands) == CopelandOuter(FromKeys(cands, 0), rs, cands, 1)

(***************************************************************************)
(* ranked_pairs                                                            *)
(***************************************************************************)
\* a variant that credits the later candidate of a pair of positions
RECURSIVE PrefInnerLater(_, _, _, _)
PrefInnerLater(pref, c1, rest, j) ==
    IF j > Len(rest) THEN pref
    ELSE PrefInnerLater(
           IF c1 \in DOMAIN pref /\ rest[j] \in DOMAIN pref[c1]
           THEN [pref EXCEPT ![rest[j]][c1] = @ + 1]
           ELSE pref,
           c1, rest, j + 1)

\* the innermost loop: for c2 in ranking.rankings[i+1:]
RECURSIVE PrefInner(_, _, _, _)
PrefInner(pref, c1, rest, j) ==
    IF j > Len(rest) THEN pref
    ELSE PrefInner(
           IF c1 \in DOMAIN pref /\ rest[j] \in DOMAIN pref[c1]
           THEN [pref EXCEPT ![c1][rest[j]] = @ + 1]
           ELSE pref,
           c1, rest, j + 1)

\* for i, c1 in enumerate(ranking.rankings)
RECURSIVE PrefOrder(_, _, _)
PrefOrder(pref, order, i) ==
    IF i > Len(order) THEN pref
    ELSE PrefOrder(PrefInner(pref, order[i], After(order, i), 1), order, i + 1)

\* for ranking in rankings
RECURSIVE PrefLoop(_, _)
PrefLoop(pref, rs) ==
    IF rs = <<>> THEN pref
    ELSE PrefLoop(PrefOrder(pref, Head(rs).rankings, 1), Tail(rs))

\* pref is a dict of dicts that is only ever indexed, never iterated: a function
build_preference_matrix(rs, cands) ==
    PrefLoop([c1 \in Range(cands) |-> [c2 \in Range(cands) |-> 0]], rs)

\* the inner loop of _calculate_margin_pairs; a pair is <<winner, loser, margin>>
RECURSIVE MarginInner(_, _, _, _, _)
MarginInner(acc, pref, c1, rest, j) ==
    IF j > Len(rest) THEN acc
    ELSE LET c2 == rest[j]
             margin == pref[c1][c2] - pref[c2][c1]
         IN  MarginInner(
               IF margin > 0 THEN Append(acc, <<c1, c2, margin>>)
               ELSE IF margin < 0 THEN Append(acc, <<c2, c1, 0 - margin>>)
               ELSE acc,
               pref, c1, rest, j + 1)

RECURSIVE MarginOuter(_, _, _, _)
MarginOuter(acc, pref, cands, i) ==
    IF i > Len(cands) THEN acc
    ELSE MarginOuter(MarginInner(acc, pref, cands[i], After(cands, i), 1), pref, cands, i + 1)

\* a variant that keeps the direction c1 -> c2 for a negative margin
RECURSIVE MarginInnerKept(_, _, _, _, _)
MarginInnerKept(acc, pref, c1, rest, j) ==
    IF j > Len(rest) THEN acc
    ELSE LET c2 == rest[j]
             margin == pref[c1][c2] - pref[c2][c1]
         IN  MarginInnerKept(
               IF margin > 0 THEN Append(acc, <<c1, c2, margin>>)
               ELSE IF margin < 0 THEN Append(acc, <<c1, c2, 0 - margin>>)
               ELSE acc,
               pref, c1, rest, j + 1)

RECURSIVE MarginOuterKept(_, _, _, _)
MarginOuterKept(acc, pref, cands, i) ==
    IF i > Len(cands) THEN acc
    ELSE MarginOuterKept(MarginInnerKept(acc, pref, cands[i], After(cands, i), 1),
                         pref, cands, i + 1)

\* a variant that also emits an edge for a margin of 0
RECURSIVE MarginInnerTies(_, _, _, _, _)
MarginInnerTies(acc, pref, c1, rest, j) ==
    IF j > Len(rest) THEN acc
    ELSE LET c2 == rest[j]
             margin == pref[c1][c2] - pref[c2][c1]
         IN  MarginInnerTies(
               IF margin >= 0 THEN Append(acc, <<c1, c2, margin>>)
               ELSE Append(acc, <<c2, c1, 0 - margin>>),
               pref, c1, rest, j + 1)

RECURSIVE MarginOuterTies(_, _, _, _)
MarginOuterTies(acc, pref, cands, i) ==
    IF i > Len(cands) THEN acc
    ELSE MarginOuterTies(MarginInnerTies(acc, pref, cands[i], After(cands, i), 1),
                         pref, cands, i + 1)

calculate_margin_pairs_ties(cands, pref) == MarginOuterTies(<<>>, pref, cands, 1)

calculate_margin_pairs_kept(cands, pref) == MarginOuterKept(<<>>, pref, cands, 1)

calculate_margin_pairs(cands, pref) == MarginOuter(<<>>, pref, cands, 1)

\* a variant that places a pair in front of the pairs of its own margin
RECURSIVE InsertByMarginFront(_, _)
InsertByMarginFront(sorted, p) ==
    IF sorted = <<>> THEN <<p>>
    ELSE IF Head(sorted)[3] > p[3]
         THEN <<Head(sorted)>> \o InsertByMarginFront(Tail(sorted), p)
    ELSE <<p>> \o sorted

\* pairs.sort(key=lambda x: x[2], reverse=True): a stable sort, so a pair goes
\* behind every pair already placed whose margin is at least its own
RECURSIVE InsertByMargin(_, _)
InsertByMargin(sorted, p) ==
    IF sorted = <<>> THEN <<p>>
    ELSE IF Head(sorted)[3] >= p[3] THEN <<Head(sorted)>> \o InsertByMargin(Tail(sorted), p)
    ELSE <<p>> \o sorted

RECURSIVE SortFrom(_, _, _)
SortFrom(sorted, ps, i) ==
    IF i > Len(ps) THEN sorted ELSE SortFrom(InsertByMargin(sorted, ps[i]), ps, i + 1)

sort_by_margin(ps) == SortFrom(<<>>, ps, 1)

\* an enumeration of a set: the order in which Python iterates a set is not
\* specified, and nothing below depends on it
RECURSIVE SetToSeq(_)
SetToSeq(S) ==
    IF S = {} THEN <<>>
    ELSE LET x == CHOOSE y \in S : TRUE IN <<x>> \o SetToSeq(S \ {x})

\* the while loop of _creates_cycle
RECURSIVE CycleSearch(_, _, _, _)
CycleSearch(lk, winner, queue, visited) ==
    IF queue = <<>> THEN FALSE
    ELSE LET current == Head(queue)
             rest == Tail(queue)
         IN  IF current = winner THEN TRUE
             ELSE IF current \in visited THEN CycleSearch(lk, winner, rest, visited)
             ELSE CycleSearch(lk, winner,
                              rest \o SetToSeq({e[2] : e \in {f \in lk : f[1] = current}}),
                              visited \cup {current})

\* a variant that only looks for the reverse edge, not for a path
creates_cycle_direct(lk, winner, loser) == <<loser, winner>> \in lk

creates_cycle(lk, winner, loser) == CycleSearch(lk, winner, <<loser>>, {})

\* the losers of the edges of the enumeration es that leave the candidate current,
\* in the order of es: for w, l in locked: if w == current: queue.append(l)
RECURSIVE LosersOf(_, _)
LosersOf(es, current) ==
    IF es = <<>> THEN <<>>
    ELSE (IF Head(es)[1] = current THEN <<Head(es)[2]>> ELSE <<>>) \o LosersOf(Tail(es), current)

\* the while loop of _creates_cycle when the set locked is iterated in the order es
RECURSIVE CycleSearchIn(_, _, _, _)
CycleSearchIn(es, winner, queue, visited) ==
    IF queue = <<>> THEN FALSE
    ELSE LET current == Head(queue)
             rest == Tail(queue)
         IN  IF current = winner THEN TRUE
             ELSE IF current \in visited THEN CycleSearchIn(es, winner, rest, visited)
             ELSE CycleSearchIn(es, winner, rest \o LosersOf(es, current),
                                visited \cup {current})

\* a variant that searches from the winner for the loser
creates_cycle_from_winner(es, winner, loser) == CycleSearchIn(es, loser, <<winner>>, {})

creates_cycle_in(es, winner, loser) == CycleSearchIn(es, winner, <<loser>>, {})

\* one iteration of the loop of _lock_pairs_without_cycles
LockOne(lk, p) == IF ~creates_cycle(lk, p[1], p[2]) THEN lk \cup {<<p[1], p[2]>>} ELSE lk

RECURSIVE LockFrom(_, _, _)
LockFrom(lk, ps, i) ==
    IF i > Len(ps) THEN lk ELSE LockFrom(LockOne(lk, ps[i]), ps, i + 1)

lock_pairs_without_cycles(ps) == LockFrom({}, ps, 1)

\* a variant that credits the loser of a locked edge
RECURSIVE ScoreLockedLosers(_, _)
ScoreLockedLosers(scores, lk) ==
    IF lk = <<>> THEN scores
    ELSE ScoreLockedLosers(DictSet(scores, Head(lk)[2], scores.val[Head(lk)[2]] + 1), Tail(lk))

\* for winner, loser in locked: scores[winner] += 1
RECURSIVE ScoreLocked(_, _)
ScoreLocked(scores, lk) ==
    IF lk = <<>> THEN scores
    ELSE ScoreLocked(DictSet(scores, Head(lk)[1], scores.val[Head(lk)[1]] + 1), Tail(lk))

\* the edges ranked_pairs hands to the lock-in, in processing order
sorted_pairs(rs, cands) ==
    sort_by_margin(calculate_margin_pairs(cands, build_preference_matrix(rs, cands)))

locked_scores(lk, cands) == ScoreLocked(FromKeys(cands, 0), SetToSeq(lk))

ranked_pairs(rs, cands) ==
    locked_scores(lock_pairs_without_cycles(sorted_pairs(rs, cands)), cands)

(***************************************************************************)
(* get_winner, get_ranking                                                 *)
(***************************************************************************)
\* a variant that moves on to a later key of the same score
RECURSIVE MaxFromLast(_, _, _)
MaxFromLast(scores, best, i) ==
    IF i > Len(scores.keys) THEN best
    ELSE MaxFromLast(scores,
                     IF scores.val[scores.keys[i]] >= scores.val[best] THEN scores.keys[i] ELSE best,
                     i + 1)

\* max(keys, key=...): the first key, in iteration order, that no key beats
RECURSIVE MaxFrom(_, _, _)
MaxFrom(scores, best, i) ==
    IF i > Len(scores.keys) THEN best
    ELSE MaxFrom(scores,
                 IF scores.val[scores.keys[i]] > scores.val[best] THEN scores.keys[i] ELSE best,
                 i + 1)

get_winner(scores) ==
    IF scores.keys = <<>> THEN "" ELSE MaxFrom(scores, scores.keys[1], 2)

\* a variant that puts a key in front of the keys of the same score
RECURSIVE InsertByScoreFront(_, _, _)
InsertByScoreFront(scores, sorted, k) ==
    IF sorted = <<>> THEN <<k>>
    ELSE IF scores.val[Head(sorted)] > scores.val[k]
         THEN <<Head(sorted)>> \o InsertByScoreFront(scores, Tail(sorted), k)
         ELSE <<k>> \o sorted

\* sorted(keys, key=..., reverse=True): stable, so a key goes behind every key
\* already placed whose score is at least its own
RECURSIVE InsertByScore(_, _, _)
InsertByScore(scores, sorted, k) ==
    IF sorted = <<>> THEN <<k>>
    ELSE IF scores.val[Head(sorted)] >= scores.val[k]
         THEN <<Head(sorted)>> \o InsertByScore(scores, Tail(sorted), k)
         ELSE <<k>> \o sorted

RECURSIVE RankingFrom(_, _, _)
RankingFrom(scores, sorted, i) ==
    IF i > Len(scores.keys) THEN sorted
    ELSE RankingFrom(scores, InsertByScore(scores, sorted, scores.keys[i]), i + 1)

get_ranking(scores) == RankingFrom(scores, <<>>, 1)

(***************************************************************************)
(* Ratios: <<num, den>> in lowest terms, den > 0.                          *)
(***************************************************************************)
RECURSIVE GCD(_, _)
GCD(a, b) == IF b = 0 THEN a ELSE GCD(b, a % b)

Abs(x) == IF x < 0 THEN 0 - x ELSE x

Frac(n, d) == LET g == GCD(Abs(n), d) IN <<n \div g, d \div g>>

Zero == Frac(0, 1)
One == Frac(1, 1)

FracAdd(a, b) == Frac(a[1] * b[2] + b[1] * a[2], a[2] * b[2])
FracSub(a, b) == Frac(a[1] * b[2] - b[1] * a[2], a[2] * b[2])
FracDivInt(a, k) == Frac(a[1], a[2] * k)
FracLeq(a, b) == a[1] * b[2] <= b[1] * a[2]

(***************************************************************************)
(* _calculate_pairwise_agreement, agreement_matrix, diversity_score        *)
(***************************************************************************)
\* the inner loop; acc is <<agreements, comparisons>>
RECURSIVE AgreeInner(_, _, _, _, _, _)
AgreeInner(acc, r1, r2, c1, rest, j) ==
    IF j > Len(rest) THEN acc
    ELSE LET c2 == rest[j]
         IN  IF /\ Contains(r1.rankings, c1) /\ Contains(r1.rankings, c2)
                /\ Contains(r2.rankings, c1) /\ Contains(r2.rankings, c2)
             THEN LET r1_prefers_c1 == IndexOf(r1.rankings, c1) < IndexOf(r1.rankings, c2)
                      r2_prefers_c1 == IndexOf(r2.rankings, c1) < IndexOf(r2.rankings, c2)
                  IN  AgreeInner(<<acc[1] + (IF r1_prefers_c1 = r2_prefers_c1 THEN 1 ELSE 0),
                                   acc[2] + 1>>,
                                 r1, r2, c1, rest, j + 1)
             ELSE AgreeInner(acc, r1, r2, c1, rest, j + 1)

RECURSIVE AgreeOuter(_, _, _, _, _)
AgreeOuter(acc, r1, r2, cands, i) ==
    IF i > Len(cands) THEN acc
    ELSE AgreeOuter(AgreeInner(acc, r1, r2, cands[i], After(cands, i), 1), r1, r2, cands, i + 1)

\* a variant that takes two preferences without a comparable pair as agreeing
calculate_pairwise_agreement_vacuous(r1, r2, cands) ==
    LET acc == AgreeOuter(<<0, 0>>, r1, r2, cands, 1)
    IN  IF acc[2] > 0 THEN Frac(acc[1], acc[2]) ELSE One

calculate_pairwise_agreement(r1, r2, cands) ==
    LET acc == AgreeOuter(<<0, 0>>, r1, r2, cands, 1)
    IN  IF acc[2] > 0 THEN Frac(acc[1], acc[2]) ELSE Zero

\* [r.judge for r in rankings]
Judges(rs) == [i \in DOMAIN rs |-> rs[i].judge]

\* {j1: dict.fromkeys(judges, 0.0) for j1 in judges}
RECURSIVE MatrixInit(_, _, _)
MatrixInit(m, judges, i) ==
    IF i > Len(judges) THEN m
    ELSE MatrixInit(DictSet(m, judges[i], FromKeys(judges, Zero)), judges, i + 1)

\* a variant without the short cut for a preference compared with itself
MatrixEntryComputed(m, r1, r2, cands) ==
    DictSet(m, r1.judge,
            DictSet(m.val[r1.judge], r2.judge, calculate_pairwise_agreement(r1, r2, cands)))

\* matrix[r1.judge][r2.judge] = ...
MatrixEntry(m, r1, r2, cands) ==
    DictSet(m, r1.judge,
            DictSet(m.val[r1.judge], r2.judge,
                    IF r1.id = r2.id THEN One
                    ELSE calculate_pairwise_agreement(r1, r2, cands)))

\* for r2 in rankings
RECURSIVE MatrixInner(_, _, _, _, _)
MatrixInner(m, rs, r1, cands, j) ==
    IF j > Len(rs) THEN m
    ELSE MatrixInner(MatrixEntry(m, r1, rs[j], cands), rs, r1, cands, j + 1)

\* for r1 in rankings
RECURSIVE MatrixOuter(_, _, _, _)
MatrixOuter(m, rs, cands, i) ==
    IF i > Len(rs) THEN m
    ELSE MatrixOuter(MatrixInner(m, rs, rs[i], cands, 1), rs, cands, i + 1)

\* a variant that fills the entries of r1 only against the preferences from r1 on
RECURSIVE MatrixOuterUpper(_, _, _, _)
MatrixOuterUpper(m, rs, cands, i) ==
    IF i > Len(rs) THEN m
    ELSE MatrixOuterUpper(MatrixInner(m, rs, rs[i], cands, i), rs, cands, i + 1)

agreement_matrix_upper(rs, cands) ==
    MatrixOuterUpper(MatrixInit(EmptyDict, Judges(rs), 1), rs, cands, 1)

agreement_matrix(rs, cands) == MatrixOuter(MatrixInit(EmptyDict, Judges(rs), 1), rs, cands, 1)

\* the loops of diversity_score; acc is <<total_agreement, count>>
RECURSIVE DiversityInner(_, _, _, _, _)
DiversityInner(acc, m, j1, rest, j) ==
    IF j > Len(rest) THEN acc
    ELSE DiversityInner(<<FracAdd(acc[1], m.val[j1].val[rest[j]]), acc[2] + 1>>,
                        m, j1, rest, j + 1)

\* a variant that pairs every judge with every judge, itself included
RECURSIVE DiversityOuterAll(_, _, _, _)
DiversityOuterAll(acc, m, judges, i) ==
    IF i > Len(judges) THEN acc
    ELSE DiversityOuterAll(DiversityInner(acc, m, judges[i], judges, 1), m, judges, i + 1)

RECURSIVE DiversityOuter(_, _, _, _)
DiversityOuter(acc, m, judges, i) ==
    IF i > Len(judges) THEN acc
    ELSE DiversityOuter(DiversityInner(acc, m, judges[i], After(judges, i), 1), m, judges, i + 1)

diversity_score(rs, cands) ==
    IF Len(rs) < 2 THEN Zero
    ELSE LET matrix == agreement_matrix(rs, cands)
             acc == DiversityOuter(<<Zero, 0>>, matrix, matrix.keys, 1)
         IN  IF acc[2] = 0 THEN Zero
             ELSE FracSub(One, FracDivInt(acc[1], acc[2]))

(***************************************************************************)
(* method_agreement                                                        *)
(***************************************************************************)
\* the dict comprehension over methods.items(), in the order of the literal
method_agreement(rs, cands) ==
    LET m1 == DictSet(EmptyDict, "plurality", get_winner(plurality(rs, cands)))
        m2 == DictSet(m1, "borda", get_winner(borda_count(rs, cands)))
        m3 == DictSet(m2, "weighted_borda", get_winner(weighted_borda(rs, cands)))
        m4 == DictSet(m3, "copeland", get_winner(copeland_score(rs, cands)))
    IN  DictSet(m4, "ranked_pairs", get_winner(ranked_pairs(rs, cands)))

(***************************************************************************)
(* Exceptions.  The operations of the code that can raise are subscripts   *)
(* (IndexError, KeyError), list.index (ValueError), max of an empty        *)
(* sequence (ValueError) and division (ZeroDivisionError).  For every      *)
(* function, the operator below tells whether one of its operations        *)
(* raises, each under the conditions the code evaluates it under.  The     *)
(* loops only ever assign to keys a dict already has, so the key set of a  *)
(* dict is the one it was created with.                                    *)
(***************************************************************************)
\* s[p - 1] for the 1-based index p
ItemRaises(s, p) == p \notin DOMAIN s

\* d[k]
KeyRaises(d, k) == ~HasKey(d, k)

\* s.index(x)
IndexRaises(s, x) == ~Contains(s, x)

\* max(s)
MaxRaises(s) == s = <<>>

\* x / d
DivRaises(d) == d = 0

\* r.rankings[0] ... if r.rankings
plurality_raises(rs, cands) ==
    \E i \in DOMAIN rs : rs[i].rankings # <<>> /\ ItemRaises(rs[i].rankings, 1)

\* scores[candidate_id] += ... under if candidate_id in scores
borda_count_raises(rs, cands) ==
    LET scores == FromKeys(cands, 0)
    IN  \E i \in DOMAIN rs : \E p \in DOMAIN rs[i].rankings :
            HasKey(scores, rs[i].rankings[p]) /\ KeyRaises(scores, rs[i].rankings[p])

weighted_borda_raises(rs, cands) ==
    LET scores == FromKeys(cands, 0)
    IN  \E i \in DOMAIN rs : \E p \in DOMAIN rs[i].rankings :
            HasKey(scores, rs[i].rankings[p]) /\ KeyRaises(scores, rs[i].rankings[p])

\* ranking.rankings.index(c1), .index(c2) under the two membership tests
count_pairwise_preferences_raises(rs, c1, c2) ==
    \E i \in DOMAIN rs :
        /\ Contains(rs[i].rankings, c1) /\ Contains(rs[i].rankings, c2)
        /\ IndexRaises(rs[i].rankings, c1) \/ IndexRaises(rs[i].rankings, c2)

\* wins[c1] += ..., wins[c2] += ...
award_pairwise_points_raises(wins, c1, c2, c1_preferred, c2_preferred) ==
    IF c1_preferred > c2_preferred THEN KeyRaises(wins, c1)
    ELSE IF c2_preferred > c1_preferred THEN KeyRaises(wins, c2)
    ELSE KeyRaises(wins, c1) \/ KeyRaises(wins, c2)

copeland_score_raises(rs, cands) ==
    LET wins == FromKeys(cands, 0)
    IN  \E i \in DOMAIN cands : \E j \in (i + 1)..Len(cands) :
            \/ count_pairwise_preferences_raises(rs, cands[i], cands[j])
            \/ LET cnt == count_pairwise_preferences(rs, cands[i], cands[j])
               IN  award_pairwise_points_raises(wins, cands[i], cands[j], cnt[1], cnt[2])

\* pref[c1][c2] += 1 under if c1 in pref and c2 in pref[c1]
build_preference_matrix_raises(rs, cands) ==
    LET pref == [c1 \in Range(cands) |-> [c2 \in Range(cands) |-> 0]]
    IN  \E i \in DOMAIN rs : \E p \in DOMAIN rs[i].rankings : \E q \in (p + 1)..Len(rs[i].rankings) :
            LET c1 == rs[i].rankings[p]
                c2 == rs[i].rankings[q]
            IN  /\ c1 \in DOMAIN pref /\ c2 \in DOMAIN pref[c1]
                /\ c1 \notin DOMAIN pref \/ c2 \notin DOMAIN pref[c1]

\* pref[c1][c2] - pref[c2][c1]
calculate_margin_pairs_raises(cands, pref) ==
    \E i \in DOMAIN cands : \E j \in (i + 1)..Len(cands) :
        LET c1 == cands[i]
            c2 == cands[j]
        IN  \/ c1 \notin DOMAIN pref \/ c2 \notin DOMAIN pref[c1]
            \/ c2 \notin DOMAIN pref \/ c1 \notin DOMAIN pref[c2]

\* _creates_cycle pops its queue only while it is not empty, and
\* _lock_pairs_without_cycles has no operation that raises; what is left of
\* ranked_pairs is scores[winner] += 1
ranked_pairs_raises(rs, cands) ==
    \/ build_preference_matrix_raises(rs, cands)
    \/ calculate_margin_pairs_raises(cands, build_preference_matrix(rs, cands))
    \/ LET scores == FromKeys(cands, 0)
       IN  \E e \in lock_pairs_without_cycles(sorted_pairs(rs, cands)) : KeyRaises(scores, e[1])

\* a variant without the test for an empty map
get_winner_raises_unguarded(scores) ==
    MaxRaises(scores.keys) \/ \E i \in DOMAIN scores.keys : KeyRaises(scores, scores.keys[i])

\* max(scores.keys(), key=lambda k: scores[k]) under if not scores: return ""
get_winner_raises(scores) ==
    /\ scores.keys # <<>>
    /\ MaxRaises(scores.keys) \/ \E i \in DOMAIN scores.keys : KeyRaises(scores, scores.keys[i])

\* sorted(scores.keys(), key=lambda k: scores[k], ...)
get_ranking_raises(scores) == \E i \in DOMAIN scores.keys : KeyRaises(scores, scores.keys[i])

\* the four .index calls under the four membership tests, and the division under
\* comparisons > 0
calculate_pairwise_agreement_raises(r1, r2, cands) ==
    \/ \E i \in DOMAIN cands : \E j \in (i + 1)..Len(cands) :
          /\ Contains(r1.rankings, cands[i]) /\ Contains(r1.rankings, cands[j])
          /\ Contains(r2.rankings, cands[i]) /\ Contains(r2.rankings, cands[j])
          /\ \/ IndexRaises(r1.rankings, cands[i]) \/ IndexRaises(r1.rankings, cands[j])
             \/ IndexRaises(r2.rankings, cands[i]) \/ IndexRaises(r2.rankings, cands[j])
    \/ LET acc == AgreeOuter(<<0, 0>>, r1, r2, cands, 1)
       IN  acc[2] > 0 /\ DivRaises(acc[2])

\* matrix[r1.judge][r2.judge] = ...: the subscript matrix[r1.judge], and the call
\* of _calculate_pairwise_agreement for two different preferences
agreement_matrix_raises(rs, cands) ==
    LET matrix == MatrixInit(EmptyDict, Judges(rs), 1)
    IN  \E i, j \in DOMAIN rs :
            \/ KeyRaises(matrix, rs[i].judge)
            \/ rs[i].id # rs[j].id /\ calculate_pairwise_agreement_raises(rs[i], rs[j], cands)

method_agreement_raises(rs, cands) ==
    \/ plurality_raises(rs, cands) \/ get_winner_raises(plurality(rs, cands))
    \/ borda_count_raises(rs, cands) \/ get_winner_raises(borda_count(rs, cands))
    \/ weighted_borda_raises(rs, cands) \/ get_winner_raises(weighted_borda(rs, cands))
    \/ copeland_score_raises(rs, cands) \/ get_winner_raises(copeland_score(rs, cands))
    \/ ranked_pairs_raises(rs, cands) \/ get_winner_raises(ranked_pairs(rs, cands))

\* after the early return: agreement_matrix, matrix[j1][j2] for j2 after j1 in the
\* keys, and the division under count != 0
diversity_score_raises(rs, cands) ==
    /\ Len(rs) >= 2
    /\ \/ agreement_matrix_raises(rs, cands)
       \/ LET matrix == agreement_matrix(rs, cands)
              judges == matrix.keys
          IN  \/ \E i \in DOMAIN judges : \E j \in (i + 1)..Len(judges) :
                    KeyRaises(matrix, judges[i]) \/ KeyRaises(matrix.val[judges[i]], judges[j])
              \/ LET count == DiversityOuter(<<Zero, 0>>, matrix, judges, 1)[2]
                 IN  count # 0 /\ DivRaises(count)

(***************************************************************************)
(* The inputs.  Candidate identifiers and judge names are opaque strings   *)
(* that the code only compares for equality.  A preference may mention any *)
(* identifier any number of times, so an order is any sequence over IDs;   *)
(* a candidate list may repeat an identifier.  Candidate lists and judge   *)
(* assignments are enumerated up to renaming: a name is used only after    *)
(* the names before it.                                                    *)
(***************************************************************************)
Min(a, b) == IF a < b THEN a ELSE b

\* the sequences of up to n names in which a name is used only after the names
\* before it
RECURSIVE FirstUseSeqs(_, _)
FirstUseSeqs(names, n) ==
    IF n = 0 THEN {<<>>}
    ELSE LET shorter == FirstUseSeqs(names, n - 1)
         IN  shorter \cup
             UNION {{Append(s, names[k]) : k \in 1..Min(Len(names), Cardinality(Range(s)) + 1)}
                    : s \in {t \in shorter : Len(t) = n - 1}}

Orders == SeqsUpTo(IDs, MaxLen)

CandLists == FirstUseSeqs(IDOrder, MaxCands)

\* complete ballots: every identifier exactly once
RECURSIVE CompleteOrders(_)
CompleteOrders(S) ==
    IF S = {} THEN {<<>>}
    ELSE UNION {{<<x>> \o p : p \in CompleteOrders(S \ {x})} : x \in S}

Ballots == CompleteOrders(IDs)

\* models.py: confidence defaults to 1.0
DefaultConfidence == 1

\* the i-th preference of a call: a Ranking with its own id
Ranking(i, judge, order, conf) ==
    [id |-> i, judge |-> judge, rankings |-> order, confidence |-> conf]

\* every preference under the name of its own judge
OwnJudges(n) == {[i \in 1..n |-> JudgeNames[i]]}

\* every assignment of judge names to n preferences
AnyJudges(n) == {j \in FirstUseSeqs(JudgeNames, n) : Len(j) = n}

\* lists of up to maxn preferences with orders from the given set, each with the
\* default confidence; judge names may be shared between preferences or not
ListsOf(orders, maxn, shared) ==
    UNION {{[i \in 1..n |-> Ranking(i, js[i], os[i], DefaultConfidence)]
            : js \in (IF shared THEN AnyJudges(n) ELSE OwnJudges(n)),
              os \in [1..n -> orders]} : n \in 0..maxn}

\* up to MaxPrefs preferences of any shape (partial, duplicate mentions, identifiers
\* outside the candidate list), and up to MaxBallots complete ballots; the judge
\* name plays no part in the scoring methods
RankingLists ==
    ListsOf(Orders, MaxPrefs, FALSE) \cup ListsOf(Ballots, MaxBallots, FALSE)

Init ==
    /\ rankings \in RankingLists
    /\ candidates \in CandLists
    /\ score_map = EmptyDict
    /\ op = "idle"
    /\ result = <<>>
    /\ pairs = <<>>
    /\ locked = {}
    /\ idx = 0
    /\ calls = <<>>
    /\ NoJobs

Return(name, value) ==
    /\ op = "idle"
    /\ op' = name
    /\ result' = value
    /\ UNCHANGED <<rankings, candidates, score_map, pairs, locked, idx, calls, jobvars>>

Plurality == Return("plurality", plurality(rankings, candidates))

BordaCount == Return("borda_count", borda_count(rankings, candidates))

WeightedBorda == Return("weighted_borda", weighted_borda(rankings, candidates))

CopelandScore == Return("copeland_score", copeland_score(rankings, candidates))

\* ranked_pairs up to the call of _lock_pairs_without_cycles
RankedPairsBegin ==
    /\ op = "idle"
    /\ op' = "locking"
    /\ pairs' = sorted_pairs(rankings, candidates)
    /\ locked' = {}
    /\ idx' = 1
    /\ UNCHANGED <<rankings, candidates, score_map, result, calls, jobvars>>

\* one iteration of the loop of _lock_pairs_without_cycles
LockPair ==
    /\ op = "locking"
    /\ idx <= Len(pairs)
    /\ locked' = LockOne(locked, pairs[idx])
    /\ idx' = idx + 1
    /\ UNCHANGED <<rankings, candidates, score_map, op, result, pairs, calls, jobvars>>

\* the loop is over: ranked_pairs scores the locked edges and returns
RankedPairsReturn ==
    /\ op = "locking"
    /\ idx > Len(pairs)
    /\ op' = "ranked_pairs"
    /\ result' = locked_scores(locked, candidates)
    /\ UNCHANGED <<rankings, candidates, score_map, pairs, locked, idx, calls, jobvars>>

Next ==
    \/ Plurality
    \/ BordaCount
    \/ WeightedBorda
    \/ CopelandScore
    \/ RankedPairsBegin
    \/ LockPair
    \/ RankedPairsReturn

Spec == Init /\ [][Next]_vars

(***************************************************************************)
(* The agreement analysis is checked on the same preferences under every   *)
(* assignment of judge names, so that one judge name can sit on several    *)
(* preferences.                                                            *)
(***************************************************************************)
JudgedLists ==
    ListsOf(Orders, MaxPrefs, TRUE) \cup ListsOf(Ballots, MaxBallots, TRUE)

\* the candidate lists of up to as many entries as there are identifiers
JudgedCandLists == FirstUseSeqs(IDOrder, Cardinality(IDs))

InitAgreement ==
    /\ rankings \in JudgedLists
    /\ candidates \in JudgedCandLists
    /\ score_map = EmptyDict
    /\ op = "idle"
    /\ result = <<>>
    /\ pairs = <<>>
    /\ locked = {}
    /\ idx = 0
    /\ calls = <<>>
    /\ NoJobs

AgreementMatrix == Return("agreement_matrix", agreement_matrix(rankings, candidates))

DiversityScore == Return("diversity_score", diversity_score(rankings, candidates))

NextAgreement ==
    \/ AgreementMatrix
    \/ DiversityScore

SpecAgreement == InitAgreement /\ [][NextAgreement]_vars

(***************************************************************************)
(* weighted_borda is checked on preferences of every confidence: below 0,  *)
(* the default 1 and above 1.  The confidence is a float that the code     *)
(* only multiplies with, so whole numbers stand for it.  Two identifiers   *)
(* keep the number of lists small.                                         *)
(***************************************************************************)
Confidences == {0 - 1, DefaultConfidence, 2}

WeightedNames == <<"A", "B">>

\* the list of the preferences with the given orders and confidences
WeightedList(os, cs) == [i \in DOMAIN os |-> Ranking(i, JudgeNames[i], os[i], cs[i])]

\* up to MaxWeighted preferences of any order over the two identifiers and of any
\* confidence
InitWeighted ==
    /\ \E n \in 0..MaxWeighted :
          \E os \in [1..n -> SeqsUpTo(Range(WeightedNames), MaxLen)], cs \in [1..n -> Confidences] :
              rankings = WeightedList(os, cs)
    /\ candidates \in FirstUseSeqs(WeightedNames, MaxLen)
    /\ score_map = EmptyDict
    /\ op = "idle"
    /\ result = <<>>
    /\ pairs = <<>>
    /\ locked = {}
    /\ idx = 0
    /\ calls = <<>>
    /\ NoJobs

SpecWeighted == InitWeighted /\ [][WeightedBorda]_vars

(***************************************************************************)
(* get_winner and get_ranking are checked on every score map of up to      *)
(* MaxKeys keys with scores from 0 to MaxScore.  The keys of a dict are    *)
(* distinct, so up to renaming they are the first names in their order.    *)
(***************************************************************************)
KeyNames == <<"A", "B", "C", "D", "E">>

\* the dict with the keys ks in this order and the values v
ScoreMap(ks, v) == [keys |-> ks, val |-> v]

InitSelect ==
    /\ \E n \in 0..MaxKeys : \E v \in [Range(SubSeq(KeyNames, 1, n)) -> 0..MaxScore] :
          score_map = ScoreMap(SubSeq(KeyNames, 1, n), v)
    /\ rankings = <<>>
    /\ candidates = <<>>
    /\ op = "idle"
    /\ result = <<>>
    /\ pairs = <<>>
    /\ locked = {}
    /\ idx = 0
    /\ calls = <<>>
    /\ NoJobs

GetWinner == Return("get_winner", get_winner(score_map))

GetRanking == Return("get_ranking", get_ranking(score_map))

NextSelect ==
    \/ GetWinner
    \/ GetRanking

SpecSelect == InitSelect /\ [][NextSelect]_vars

(***************************************************************************)
(* The two ratios, agreements / comparisons and total_agreement / count,   *)
(* are checked on up to MaxRated preferences of any order over two         *)
(* identifiers under every assignment of judge names.                      *)
(***************************************************************************)
\* the list of the preferences with the given judges and orders
RatedList(js, os) == [i \in DOMAIN os |-> Ranking(i, js[i], os[i], DefaultConfidence)]

InitRatios ==
    /\ \E n \in 0..MaxRated :
          \E js \in AnyJudges(n), os \in [1..n -> SeqsUpTo(Range(WeightedNames), MaxLen)] :
              rankings = RatedList(js, os)
    /\ candidates \in FirstUseSeqs(WeightedNames, MaxLen)
    /\ score_map = EmptyDict
    /\ op = "idle"
    /\ result = <<>>
    /\ pairs = <<>>
    /\ locked = {}
    /\ idx = 0
    /\ calls = <<>>
    /\ NoJobs

\* a call of _calculate_pairwise_agreement on the two preferences of the list
PairwiseAgreement ==
    /\ Len(rankings) = 2
    /\ Return("calculate_pairwise_agreement",
              calculate_pairwise_agreement(rankings[1], rankings[2], candidates))

NextRatios ==
    \/ PairwiseAgreement
    \/ DiversityScore

SpecRatios == InitRatios /\ [][NextRatios]_vars

(***************************************************************************)
(* Calls that may raise.  A call either raises, and the caller is left     *)
(* with the exception, or returns its value.  The arguments are up to      *)
(* MaxRated preferences of any order over two identifiers under every      *)
(* assignment of judge names, with a confidence below, inside or above     *)
(* [0, 1], and any candidate list; or any score map.                       *)
(***************************************************************************)
\* the list of the preferences with the given judges and orders and one confidence
TrustedList(js, os, conf) == [i \in DOMAIN os |-> Ranking(i, js[i], os[i], conf)]

InitErrors ==
    /\ \/ /\ \E n \in 0..MaxRated :
                \E js \in AnyJudges(n), os \in [1..n -> SeqsUpTo(Range(WeightedNames), MaxLen)],
                   conf \in Confidences :
                    rankings = TrustedList(js, os, conf)
          /\ candidates \in FirstUseSeqs(WeightedNames, MaxLen)
          /\ score_map = EmptyDict
       \/ /\ rankings = <<>>
          /\ candidates = <<>>
          /\ \E n \in 0..MaxKeys : \E v \in [Range(SubSeq(KeyNames, 1, n)) -> 0..MaxScore] :
                score_map = ScoreMap(SubSeq(KeyNames, 1, n), v)
    /\ op = "idle"
    /\ result = <<>>
    /\ pairs = <<>>
    /\ locked = {}
    /\ idx = 0
    /\ calls = <<>>
    /\ NoJobs

\* the call of the function of this name raises or returns this value
Call(name, raises, value) ==
    /\ op = "idle"
    /\ op' = IF raises THEN "error" ELSE name
    /\ result' = IF raises THEN name ELSE value
    /\ UNCHANGED <<rankings, candidates, score_map, pairs, locked, idx, calls, jobvars>>

CallPlurality ==
    Call("plurality", plurality_raises(rankings, candidates), plurality(rankings, candidates))

CallBordaCount ==
    Call("borda_count", borda_count_raises(rankings, candidates),
         borda_count(rankings, candidates))

CallWeightedBorda ==
    Call("weighted_borda", weighted_borda_raises(rankings, candidates),
         weighted_borda(rankings, candidates))

CallCopelandScore ==
    Call("copeland_score", copeland_score_raises(rankings, candidates),
         copeland_score(rankings, candidates))

CallRankedPairs ==
    Call("ranked_pairs", ranked_pairs_raises(rankings, candidates),
         ranked_pairs(rankings, candidates))

CallGetWinner == Call("get_winner", get_winner_raises(score_map), get_winner(score_map))

CallGetRanking == Call("get_ranking", get_ranking_raises(score_map), get_ranking(score_map))

CallAgreementMatrix ==
    Call("agreement_matrix", agreement_matrix_raises(rankings, candidates),
         agreement_matrix(rankings, candidates))

CallMethodAgreement ==
    Call("method_agreement", method_agreement_raises(rankings, candidates),
         method_agreement(rankings, candidates))

CallDiversityScore ==
    Call("diversity_score", diversity_score_raises(rankings, candidates),
         diversity_score(rankings, candidates))

NextErrors ==
    \/ CallPlurality
    \/ CallBordaCount
    \/ CallWeightedBorda
    \/ CallCopelandScore
    \/ CallRankedPairs
    \/ CallGetWinner
    \/ CallGetRanking
    \/ CallAgreementMatrix
    \/ CallMethodAgreement
    \/ CallDiversityScore

SpecErrors == InitErrors /\ [][NextErrors]_vars

(***************************************************************************)
(* Several callers (threads, or requests of the API) call the core         *)
(* functions on the same arguments.  Every caller has the locals of its    *)
(* own call; the lock-in loop of ranked_pairs runs one iteration per step, *)
(* so that the calls interleave.  The other functions have no loop that    *)
(* writes anything but a local of the call, and are one step each.  The    *)
(* arguments are three complete ballots over the three candidates, the     *)
(* first one in the order of the candidate list, and the score map an      *)
(* earlier borda_count call returned for them.                             *)
(***************************************************************************)
Callers == 1..MaxCallers

\* a variant with one set locked for all calls
LockedShared(t) == 1

\* the caller whose call owns the set locked that caller t works on: locked is a
\* local of _lock_pairs_without_cycles, created by the call
LockedOwner(t) == t

IdleCall == [op |-> "idle", result |-> <<>>, pairs |-> <<>>, locked |-> {}, idx |-> 0]

InitCallers ==
    /\ \E os \in {o \in [DOMAIN IDOrder -> Ballots] : o[1] = IDOrder} :
          rankings = [i \in DOMAIN IDOrder |-> Ranking(i, JudgeNames[i], os[i], DefaultConfidence)]
    /\ candidates = IDOrder
    /\ score_map = borda_count(rankings, candidates)
    /\ op = "idle"
    /\ result = <<>>
    /\ pairs = <<>>
    /\ locked = {}
    /\ idx = 0
    /\ calls = [t \in Callers |-> IdleCall]
    /\ NoJobs

\* caller t calls the function of this name, which returns this value
CallerReturn(t, name, value) ==
    /\ calls[t].op = "idle"
    /\ calls' = [calls EXCEPT ![t].op = name, ![t].result = value]
    /\ UNCHANGED <<rankings, candidates, score_map, op, result, pairs, locked, idx, jobvars>>

CallerPlurality(t) == CallerReturn(t, "plurality", plurality(rankings, candidates))

CallerBordaCount(t) == CallerReturn(t, "borda_count", borda_count(rankings, candidates))

CallerWeightedBorda(t) == CallerReturn(t, "weighted_borda", weighted_borda(rankings, candidates))

CallerCopelandScore(t) == CallerReturn(t, "copeland_score", copeland_score(rankings, candidates))

CallerGetWinner(t) == CallerReturn(t, "get_winner", get_winner(score_map))

CallerGetRanking(t) == CallerReturn(t, "get_ranking", get_ranking(score_map))

CallerAgreementMatrix(t) ==
    CallerReturn(t, "agreement_matrix", agreement_matrix(rankings, candidates))

CallerMethodAgreement(t) ==
    CallerReturn(t, "method_agreement", method_agreement(rankings, candidates))

CallerDiversityScore(t) ==
    CallerReturn(t, "diversity_score", diversity_score(rankings, candidates))

\* ranked_pairs up to the first iteration of the lock-in: locked = set()
CallerRankedPairsBegin(t) ==
    /\ calls[t].op = "idle"
    /\ calls' = [calls EXCEPT ![t].op = "locking",
                              ![t].pairs = sorted_pairs(rankings, candidates),
                              ![t].idx = 1,
                              ![LockedOwner(t)].locked = {}]
    /\ UNCHANGED <<rankings, candidates, score_map, op, result, pairs, locked, idx, jobvars>>

\* one iteration of the lock-in loop of caller t
CallerLockPair(t) ==
    /\ calls[t].op = "locking"
    /\ calls[t].idx <= Len(calls[t].pairs)
    /\ calls' = [calls EXCEPT ![t].idx = @ + 1,
                              ![LockedOwner(t)].locked = LockOne(@, calls[t].pairs[calls[t].idx])]
    /\ UNCHANGED <<rankings, candidates, score_map, op, result, pairs, locked, idx, jobvars>>

\* the loop of caller t is over: ranked_pairs scores the locked edges and returns
CallerRankedPairsReturn(t) ==
    /\ calls[t].op = "locking"
    /\ calls[t].idx > Len(calls[t].pairs)
    /\ calls' = [calls EXCEPT ![t].op = "ranked_pairs",
                              ![t].result = locked_scores(calls[LockedOwner(t)].locked, candidates)]
    /\ UNCHANGED <<rankings, candidates, score_map, op, result, pairs, locked, idx, jobvars>>

\* caller t is done with the result and free for its next call; the locals of the
\* call are gone
CallerDone(t) ==
    /\ calls[t].op \notin {"idle", "locking"}
    /\ calls' = [calls EXCEPT ![t] = IdleCall]
    /\ UNCHANGED <<rankings, candidates, score_map, op, result, pairs, locked, idx, jobvars>>

NextCallers ==
    \E t \in Callers :
        \/ CallerPlurality(t)
        \/ CallerBordaCount(t)
        \/ CallerWeightedBorda(t)
        \/ CallerCopelandScore(t)
        \/ CallerGetWinner(t)
        \/ CallerGetRanking(t)
        \/ CallerAgreementMatrix(t)
        \/ CallerMethodAgreement(t)
        \/ CallerDiversityScore(t)
        \/ CallerRankedPairsBegin(t)
        \/ CallerLockPair(t)
        \/ CallerRankedPairsReturn(t)
        \/ CallerDone(t)

SpecCallers == InitCallers /\ [][NextCallers]_vars

(***************************************************************************)
(* ranked_pairs step by step, on up to MaxTallied preferences whose orders  *)
(* mention up to MaxMentions identifiers, any of them more than once.  The  *)
(* order in which Python iterates the set locked is not specified: every    *)
(* loop over it takes any enumeration of the set.  Until the call returns,  *)
(* result holds the local pref.                                             *)
(***************************************************************************)
MentionOrders == SeqsUpTo(IDs, MaxMentions)

\* the orders in which a set can be iterated
Enumerations(S) == {es \in [1..Cardinality(S) -> S] : Range(es) = S}

InitTally ==
    /\ \E n \in 0..MaxTallied : \E os \in [1..n -> MentionOrders] :
          rankings = RatedList([i \in 1..n |-> JudgeNames[i]], os)
    /\ candidates \in CandLists
    /\ score_map = EmptyDict
    /\ op = "idle"
    /\ result = <<>>
    /\ pairs = <<>>
    /\ locked = {}
    /\ idx = 0
    /\ calls = <<>>
    /\ NoJobs

\* pref = _build_preference_matrix(rankings, candidates)
BuildPreferenceMatrix ==
    /\ op = "idle"
    /\ op' = "pref"
    /\ result' = build_preference_matrix(rankings, candidates)
    /\ UNCHANGED <<rankings, candidates, score_map, pairs, locked, idx, calls, jobvars>>

\* pairs = _calculate_margin_pairs(candidates, pref)
CalculateMarginPairs ==
    /\ op = "pref"
    /\ op' = "pairs"
    /\ pairs' = calculate_margin_pairs(candidates, result)
    /\ UNCHANGED <<rankings, candidates, score_map, result, locked, idx, calls, jobvars>>

\* pairs.sort(...), and _lock_pairs_without_cycles starts with locked = set()
SortPairs ==
    /\ op = "pairs"
    /\ op' = "locking"
    /\ pairs' = sort_by_margin(pairs)
    /\ locked' = {}
    /\ idx' = 1
    /\ UNCHANGED <<rankings, candidates, score_map, result, calls, jobvars>>

\* one iteration of the loop of _lock_pairs_without_cycles
LockPairIn ==
    /\ op = "locking"
    /\ idx <= Len(pairs)
    /\ \E es \in Enumerations(locked) :
          locked' = IF ~creates_cycle_in(es, pairs[idx][1], pairs[idx][2])
                    THEN locked \cup {<<pairs[idx][1], pairs[idx][2]>>}
                    ELSE locked
    /\ idx' = idx + 1
    /\ UNCHANGED <<rankings, candidates, score_map, op, result, pairs, calls, jobvars>>

\* the loop is over: ranked_pairs scores the locked edges and returns
ScoreLockedIn ==
    /\ op = "locking"
    /\ idx > Len(pairs)
    /\ op' = "ranked_pairs"
    /\ \E es \in Enumerations(locked) : result' = ScoreLocked(FromKeys(candidates, 0), es)
    /\ UNCHANGED <<rankings, candidates, score_map, pairs, locked, idx, calls, jobvars>>

NextTally ==
    \/ BuildPreferenceMatrix
    \/ CalculateMarginPairs
    \/ SortPairs
    \/ LockPairIn
    \/ ScoreLockedIn

SpecTally == InitTally /\ [][NextTally]_vars

(***************************************************************************)
(* The job orchestration of automation.py.  All of it runs on one event     *)
(* loop: a coroutine runs without interruption from one await that suspends *)
(* it to the next, and that stretch is one step.  An optional value is      *)
(* None, the empty sequence, or Some(v), the sequence of v alone.  The      *)
(* clock counts hours.  A model, a judge and a job are known by a name.     *)
(***************************************************************************)
None == <<>>

Some(v) == <<v>>

ModelNames == <<"m1", "m2", "m3">>

JobNames == <<"j1", "j2", "j3">>

\* main.py line 67: max_age_seconds=3600, one hour
CleanupAge == 1

QUEUED == "queued"

PROCESSING == "processing"

COMPLETED == "completed"

FAILED == "failed"

\* dict.update: the keys of p replace those of d
Merge(d, p) == [k \in DOMAIN d \cup DOMAIN p |-> IF k \in DOMAIN p THEN p[k] ELSE d[k]]

\* the JobProgress that the start_*_job functions put into the registry
JobProgress(progress, total) ==
    [status |-> QUEUED, progress |-> Some(progress), results |-> None,
     errors |-> Some(<<>>), started_at |-> None, completed_at |-> None,
     completed_count |-> 0, total_count |-> total]

\* create_job_id: an identifier that no job had before
create_job_id == JobNames[Cardinality(DOMAIN tasks) + 1]

\* the coroutine that track_task schedules, before it has run
Task(kind, n, max_rounds) ==
    [kind |-> kind, models |-> SubSeq(ModelNames, 1, n), max_rounds |-> max_rounds,
     pc |-> "scheduled", pending |-> {}, responses |-> <<>>, errors |-> <<>>,
     completed |-> 0]

\* model_dump of a Response of round 1, or of a Ranking
Entry(kind, m) ==
    IF kind = "rankings" THEN [judge |-> m, source |-> "automated"]
    ELSE [model |-> m, round |-> 1]

ApiError(m) == [model |-> m, error_type |-> "api_error"]

SystemError == [model |-> "system", error_type |-> "system_error"]

\* the first statements of process_job_responses and process_job_rankings
begin_job(job, total, t) ==
    [job EXCEPT !.status = PROCESSING, !.started_at = Some(t), !.results = Some(<<>>),
                !.errors = Some(<<>>), !.total_count = total]

\* the callbacks of process_job_responses and process_job_rankings
on_progress(job, progress) ==
    [job EXCEPT !.progress = Some(progress),
                !.completed_count = IF "completed" \in DOMAIN progress
                                    THEN progress.completed ELSE 0]

on_result(job, entry) ==
    [job EXCEPT !.results = Some((IF job.results = None THEN <<>> ELSE job.results[1])
                                 \o <<entry>>)]

\* one round of the loop over asyncio.as_completed: the call of the model m has
\* ended, with a response (ok) or with an error; st is the job with its task
Completion(st, m, ok) ==
    LET task == st.task
        entry == Entry(task.kind, m)
        completed == task.completed + 1
        job1 == IF ok THEN on_result(st.job, entry) ELSE st.job
    IN  [job |-> on_progress(job1, [completed |-> completed, total |-> Len(task.models)]),
         task |-> [task EXCEPT !.responses = IF ok THEN Append(@, entry) ELSE @,
                               !.errors = IF ok THEN @ ELSE Append(@, ApiError(m)),
                               !.completed = completed,
                               !.pending = @ \ {m}]]

\* the calls that ended while the coroutine was suspended are handled without
\* another suspension, in the order in which they ended
RECURSIVE CompleteBatch(_, _, _)
CompleteBatch(st, batch, oks) ==
    IF batch = <<>> THEN st
    ELSE CompleteBatch(Completion(st, Head(batch), Head(oks)), Tail(batch), Tail(oks))

\* the except branch of the process_job_* functions, and the stamp after it
job_raised(job, t) ==
    [job EXCEPT !.status = FAILED, !.errors = Some(<<SystemError>>), !.completed_at = Some(t)]

\* a variant that leaves the early return for FAILED without its stamp
finish_job_unstamped(job, responses, errors, callback_raises, t) ==
    LET job1 == [job EXCEPT !.results = Some(responses), !.errors = Some(errors),
                            !.completed_count = Len(responses)]
    IN  IF Len(responses) = 0 /\ Len(errors) > 0
        THEN [job1 EXCEPT !.status = FAILED]
        ELSE IF callback_raises THEN job_raised(job1, t)
        ELSE [job1 EXCEPT !.status = COMPLETED, !.completed_at = Some(t)]

\* process_job_responses and process_job_rankings after the await: the results
\* are replaced by the returned list; result_callback may raise
finish_job(job, responses, errors, callback_raises, t) ==
    LET job1 == [job EXCEPT !.results = Some(responses), !.errors = Some(errors),
                            !.completed_count = Len(responses)]
    IN  IF Len(responses) = 0 /\ Len(errors) > 0
        THEN [job1 EXCEPT !.status = FAILED, !.completed_at = Some(t)]
        ELSE IF callback_raises THEN job_raised(job1, t)
        ELSE [job1 EXCEPT !.status = COMPLETED, !.completed_at = Some(t)]

\* the first statements of process_job_deliberation
begin_deliberation(job, n, max_rounds, t) ==
    [begin_job(job, max_rounds, t) EXCEPT
        !.progress = Some([round |-> 1, max_rounds |-> max_rounds, completed |-> 0,
                           total |-> n])]

\* the callback of process_job_deliberation
on_progress_deliberation(job, progress) ==
    LET merged == Merge(IF job.progress = None THEN <<>> ELSE job.progress[1], progress)
        converged == "converged" \in DOMAIN merged /\ merged.converged
        rounds == IF converged THEN merged.round ELSE merged.round - 1
    IN  [job EXCEPT !.progress = Some(merged),
                    !.completed_count = IF "round" \in DOMAIN merged
                                        THEN Min(job.total_count, IF rounds > 0 THEN rounds ELSE 0)
                                        ELSE @]

\* process_job_deliberation after the await: COMPLETED is assigned before
\* result_callback is called, and the except branch overwrites it
finish_deliberation(job, responses, errors, callback_raises, t) ==
    LET job1 == [job EXCEPT !.results = Some(responses), !.errors = Some(errors),
                            !.completed_count = job.total_count, !.status = COMPLETED]
    IN  IF callback_raises THEN job_raised(job1, t)
        ELSE [job1 EXCEPT !.completed_at = Some(t)]

\* what deliberation.run_full_deliberation reports to on_progress: the calls ended
\* in a round, or that a round has converged
DeliberationReports(task) ==
    {[completed |-> k, total |-> n, round |-> r, max_rounds |-> task.max_rounds]
        : k \in 0..Len(task.models), n \in {Len(task.models)}, r \in 1..task.max_rounds}
    \cup {[converged |-> TRUE, round |-> r, max_rounds |-> task.max_rounds]
        : r \in 2..task.max_rounds}

\* the responses of the first k models in each of the rounds 1 to r, round by round
RECURSIVE AllRounds(_, _, _)
AllRounds(models, k, r) ==
    IF r = 0 THEN <<>>
    ELSE AllRounds(models, k, r - 1) \o [i \in 1..k |-> [model |-> models[i], round |-> r]]

\* what deliberation.run_full_deliberation returns: the responses of all rounds in
\* one list; fewer than two responses end the deliberation after round 1
DeliberationReturns(task) ==
    {AllRounds(task.models, k, r)
        : k \in 0..Len(task.models), r \in 1..task.max_rounds} \
    {AllRounds(task.models, k, r)
        : k \in 0..Min(1, Len(task.models)), r \in 2..task.max_rounds}

\* a variant that removes a job as soon as its age reaches max_age_seconds
cleanup_old_jobs_at_age(registry, t, max_age_seconds) ==
    LET to_delete == {j \in DOMAIN registry :
                        /\ registry[j].status \in {COMPLETED, FAILED}
                        /\ registry[j].completed_at # None
                        /\ t - registry[j].completed_at[1] >= max_age_seconds}
    IN  [j \in DOMAIN registry \ to_delete |-> registry[j]]

\* cleanup_old_jobs: the registry without the jobs collected in to_delete
cleanup_old_jobs(registry, t, max_age_seconds) ==
    LET to_delete == {j \in DOMAIN registry :
                        /\ registry[j].status \in {COMPLETED, FAILED}
                        /\ registry[j].completed_at # None
                        /\ t - registry[j].completed_at[1] > max_age_seconds}
    IN  [j \in DOMAIN registry \ to_delete |-> registry[j]]

\* the non-empty sequences without repetition over the set S
Batches(S) ==
    UNION {{b \in [1..k -> S] : \A i, j \in 1..k : i # j => b[i] # b[j]}
           : k \in 1..Cardinality(S)}

\* the jobs start with no call of an aggregation function in progress
NoCalls ==
    /\ rankings = <<>>
    /\ candidates = <<>>
    /\ score_map = EmptyDict
    /\ op = "idle"
    /\ result = <<>>
    /\ pairs = <<>>
    /\ locked = {}
    /\ idx = 0
    /\ calls = <<>>

InitJobs == NoCalls /\ NoJobs

\* a new job enters the registry and its coroutine is scheduled
StartJob(kind, n, max_rounds, progress, total) ==
    /\ Cardinality(DOMAIN tasks) < MaxJobs
    /\ jobs' = [j \in DOMAIN jobs \cup {create_job_id} |->
                   IF j = create_job_id THEN JobProgress(progress, total) ELSE jobs[j]]
    /\ tasks' = [j \in DOMAIN tasks \cup {create_job_id} |->
                   IF j = create_job_id THEN Task(kind, n, max_rounds) ELSE tasks[j]]
    /\ UNCHANGED <<now, stream, corevars>>

StartResponseJob ==
    \E n \in 0..MaxModels :
        StartJob("responses", n, 1, [completed |-> 0, total |-> n], n)

StartRankingJob ==
    \E n \in 0..MaxModels :
        StartJob("rankings", n, 1, [completed |-> 0, total |-> n], n)

StartDeliberationJob ==
    \E n \in 0..MaxModels, max_rounds \in 1..MaxRounds :
        StartJob("deliberation", n, max_rounds,
                 [round |-> 1, max_rounds |-> max_rounds, completed |-> 0, total |-> n],
                 max_rounds)

\* the job j and the task j are replaced
SetJob(j, job, task) ==
    /\ jobs' = [jobs EXCEPT ![j] = job]
    /\ tasks' = [tasks EXCEPT ![j] = task]
    /\ UNCHANGED <<now, stream, corevars>>

\* process_job_responses or process_job_rankings runs up to its first suspension:
\* the collection raises at once (create_client, the prompt), or has no model to
\* call and returns, or waits for the first call to end
ProcessJob(j) ==
    /\ tasks[j].pc = "scheduled"
    /\ tasks[j].kind \in {"responses", "rankings"}
    /\ LET job == begin_job(jobs[j], Len(tasks[j].models), now)
           done == [tasks[j] EXCEPT !.pc = "done"]
       IN  \/ SetJob(j, job_raised(job, now), done)
           \/ /\ tasks[j].models = <<>>
              /\ \E callback_raises \in BOOLEAN :
                    SetJob(j, finish_job(job, <<>>, <<>>, callback_raises, now), done)
           \/ /\ tasks[j].models # <<>>
              /\ SetJob(j, job, [tasks[j] EXCEPT !.pc = "collecting",
                                                 !.pending = Range(tasks[j].models)])

\* calls have ended: the loop handles them, and after the last one the coroutine
\* runs to its end
Collect(j) ==
    /\ tasks[j].pc = "collecting"
    /\ \E batch \in Batches(tasks[j].pending) :
          \E oks \in [DOMAIN batch -> BOOLEAN] :
              LET st == CompleteBatch([job |-> jobs[j], task |-> tasks[j]], batch, oks)
              IN  IF st.task.pending # {}
                  THEN SetJob(j, st.job, st.task)
                  ELSE \E callback_raises \in BOOLEAN :
                          SetJob(j,
                                 finish_job(st.job, st.task.responses, st.task.errors,
                                            callback_raises, now),
                                 [st.task EXCEPT !.pc = "done"])

\* process_job_deliberation runs up to its first suspension
ProcessDeliberation(j) ==
    /\ tasks[j].pc = "scheduled"
    /\ tasks[j].kind = "deliberation"
    /\ LET n == Len(tasks[j].models)
           job == on_progress_deliberation(
                      begin_deliberation(jobs[j], n, tasks[j].max_rounds, now),
                      [completed |-> 0, total |-> n, round |-> 1,
                       max_rounds |-> tasks[j].max_rounds])
           done == [tasks[j] EXCEPT !.pc = "done"]
       IN  \/ SetJob(j, job_raised(job, now), done)
           \/ /\ n = 0
              /\ \E callback_raises \in BOOLEAN :
                    SetJob(j, finish_deliberation(job, <<>>, <<>>, callback_raises, now), done)
           \/ /\ n > 0
              /\ SetJob(j, job, [tasks[j] EXCEPT !.pc = "deliberating"])

\* the deliberation reports to on_progress
DeliberationProgress(j) ==
    /\ tasks[j].pc = "deliberating"
    /\ \E progress \in DeliberationReports(tasks[j]) :
          SetJob(j, on_progress_deliberation(jobs[j], progress), tasks[j])

\* the deliberation returns or raises
DeliberationEnd(j) ==
    /\ tasks[j].pc = "deliberating"
    /\ LET done == [tasks[j] EXCEPT !.pc = "done"]
       IN  \/ SetJob(j, job_raised(jobs[j], now), done)
           \/ \E responses \in DeliberationReturns(tasks[j]), callback_raises \in BOOLEAN :
                 \E errors \in {<<>>, <<ApiError(tasks[j].models[1])>>} :
                     SetJob(j, finish_deliberation(jobs[j], responses, errors,
                                                   callback_raises, now), done)

\* an hour passes
Tick ==
    /\ now < MaxTime
    /\ now' = now + 1
    /\ UNCHANGED <<jobs, tasks, stream, corevars>>

\* the cleanup loop of startup_event has slept and calls cleanup_old_jobs
CleanupOldJobs ==
    /\ jobs' = cleanup_old_jobs(jobs, now, CleanupAge)
    /\ UNCHANGED <<tasks, now, stream, corevars>>

NextJobs ==
    \/ StartResponseJob
    \/ StartRankingJob
    \/ StartDeliberationJob
    \/ \E j \in DOMAIN tasks : ProcessJob(j)
    \/ \E j \in DOMAIN tasks : Collect(j)
    \/ \E j \in DOMAIN tasks : ProcessDeliberation(j)
    \/ \E j \in DOMAIN tasks : DeliberationProgress(j)
    \/ \E j \in DOMAIN tasks : DeliberationEnd(j)
    \/ Tick
    \/ CleanupOldJobs

SpecJobs == InitJobs /\ [][NextJobs]_vars

(***************************************************************************)
(* The status stream of main.py: automation_event_generator polls the       *)
(* registry for one job and yields server-sent events.  One round of its    *)
(* loop is one step: compute_sse_updates has no await, and the events it    *)
(* returns are yielded as they were computed.  sent holds the events        *)
(* yielded so far; the keep-alive comment after a round is not an event.    *)
(* A client asks for a job that was started or for a name that no job has.  *)
(***************************************************************************)
UnknownJob == "unknown"

get_job_status(job_id) == IF job_id \in DOMAIN jobs THEN Some(jobs[job_id]) ELSE None

\* sse_event(event, payload)
sse_event(event, payload) == [event |-> event, data |-> payload]

build_job_snapshot(job_id, job_progress) ==
    [job_id |-> job_id,
     status |-> job_progress.status,
     progress |-> IF job_progress.progress = None THEN <<>> ELSE job_progress.progress[1],
     started_at |-> job_progress.started_at,
     completed_at |-> job_progress.completed_at,
     errors |-> IF job_progress.errors = None THEN <<>> ELSE job_progress.errors[1]]

\* the answer for a job that is not in the registry
job_not_found(job_id, last_snapshot, last_results_len) ==
    [events |-> <<sse_event("status", [job_id |-> job_id, status |-> "failed",
                                        errors |-> <<[message |-> "Job not found"]>>])>>,
     last_snapshot |-> last_snapshot,
     last_results_len |-> last_results_len,
     done |-> TRUE]

\* a variant that sends all results whenever there are new ones
compute_sse_updates_resend(job_id, job_progress, last_snapshot, last_results_len) ==
    IF job_progress = None THEN job_not_found(job_id, last_snapshot, last_results_len)
    ELSE LET job == job_progress[1]
             results == IF job.results = None THEN <<>> ELSE job.results[1]
             grown == Len(results) > last_results_len
             snapshot == build_job_snapshot(job_id, job)
             changed == Some(snapshot) # last_snapshot
         IN  [events |->
                 (IF grown
                  THEN <<sse_event("partial_results", [job_id |-> job_id, items |-> results])>>
                  ELSE <<>>)
                 \o (IF changed THEN <<sse_event("status", snapshot)>> ELSE <<>>),
              last_snapshot |-> IF changed THEN Some(snapshot) ELSE last_snapshot,
              last_results_len |-> IF grown THEN Len(results) ELSE last_results_len,
              done |-> job.status \in {"completed", "failed"}]

\* compute_sse_updates returns (events, last_snapshot, last_results_len, done)
compute_sse_updates(job_id, job_progress, last_snapshot, last_results_len) ==
    IF job_progress = None THEN job_not_found(job_id, last_snapshot, last_results_len)
    ELSE LET job == job_progress[1]
             results == IF job.results = None THEN <<>> ELSE job.results[1]
             grown == Len(results) > last_results_len
             new_items == SubSeq(results, last_results_len + 1, Len(results))
             snapshot == build_job_snapshot(job_id, job)
             changed == Some(snapshot) # last_snapshot
         IN  [events |->
                 (IF grown
                  THEN <<sse_event("partial_results", [job_id |-> job_id, items |-> new_items])>>
                  ELSE <<>>)
                 \o (IF changed THEN <<sse_event("status", snapshot)>> ELSE <<>>),
              last_snapshot |-> IF changed THEN Some(snapshot) ELSE last_snapshot,
              last_results_len |-> IF grown THEN Len(results) ELSE last_results_len,
              done |-> job.status \in {"completed", "failed"}]

\* stream_job_status: a client opens the stream of a job
StreamJobStatus ==
    /\ stream.pc = "idle"
    /\ \E job_id \in DOMAIN tasks \cup {UnknownJob} :
          stream' = [IdleStream EXCEPT !.pc = "polling", !.job_id = job_id]
    /\ UNCHANGED <<jobs, tasks, now, corevars>>

\* one round of the loop of automation_event_generator
Poll ==
    /\ stream.pc = "polling"
    /\ stream.polls < MaxPolls
    /\ LET updates == compute_sse_updates(stream.job_id, get_job_status(stream.job_id),
                                          stream.last_snapshot, stream.last_results_len)
       IN  stream' = [stream EXCEPT !.sent = @ \o updates.events,
                                    !.last_snapshot = updates.last_snapshot,
                                    !.last_results_len = updates.last_results_len,
                                    !.polls = @ + 1,
                                    !.pc = IF updates.done THEN "returned" ELSE "polling"]
    /\ UNCHANGED <<jobs, tasks, now, corevars>>

\* the client goes away and the generator is closed at a yield
Disconnect ==
    /\ stream.pc = "polling"
    /\ stream' = [stream EXCEPT !.pc = "closed"]
    /\ UNCHANGED <<jobs, tasks, now, corevars>>

\* one job, its stream, the clock and the cleanup
NextStream ==
    \/ DOMAIN tasks = {} /\ StartResponseJob
    \/ DOMAIN tasks = {} /\ StartRankingJob
    \/ DOMAIN tasks = {} /\ StartDeliberationJob
    \/ \E j \in DOMAIN tasks : ProcessJob(j)
    \/ \E j \in DOMAIN tasks : Collect(j)
    \/ \E j \in DOMAIN tasks : ProcessDeliberation(j)
    \/ \E j \in DOMAIN tasks : DeliberationProgress(j)
    \/ \E j \in DOMAIN tasks : DeliberationEnd(j)
    \/ Tick
    \/ CleanupOldJobs
    \/ StreamJobStatus
    \/ Poll
    \/ Disconnect

SpecStream == InitJobs /\ [][NextStream]_vars

(***************************************************************************)
(* Properties.                                                             *)
(***************************************************************************)
ScoreMethods == {"plurality", "borda_count", "weighted_borda", "copeland_score", "ranked_pairs"}

Distinct(s) == \A i, j \in DOMAIN s : i # j => s[i] # s[j]

Mentions(order, c) == {k \in DOMAIN order : order[k] = c}

Values(d) == {d.val[k] : k \in DOMAIN d.val}

\* C1: for each of the five methods and every list of preferences, the key set of
\* the returned score map is exactly the set of the supplied candidates.
C1_ScoreMapKeys ==
    op \in ScoreMethods =>
        /\ KeySet(result) = Range(candidates)
        /\ DOMAIN result.val = Range(candidates)

\* plurality has returned for a first-place vote outside the candidate list and with
\* a candidate that no preference mentions
C1_Witness ==
    /\ op = "plurality"
    /\ \E i \in DOMAIN rankings :
          /\ rankings[i].rankings # <<>>
          /\ rankings[i].rankings[1] \notin Range(candidates)
    /\ \E c \in Range(candidates) : \A i \in DOMAIN rankings : Mentions(rankings[i].rankings, c) = {}

\* the transitive closure of a set of edges
RECURSIVE Closure(_)
Closure(E) ==
    LET E2 == E \cup {<<p[1][1], p[2][2]>> : p \in {q \in E \X E : q[1][2] = q[2][1]}}
    IN  IF E2 = E THEN E ELSE Closure(E2)

Acyclic(E) == \A e \in Closure(E) : e[1] # e[2]

\* C2: the locked edge set has no directed cycle, after each edge that
\* _lock_pairs_without_cycles handles and at the end, for every input.
C2_LockedAcyclic == Acyclic(locked)

\* the lock-in has just refused an edge: a cyclic majority
C2_Witness ==
    /\ op = "locking"
    /\ idx > 1
    /\ <<pairs[idx - 1][1], pairs[idx - 1][2]>> \notin locked
    /\ locked # {}

\* C3: plurality, borda_count, copeland_score and ranked_pairs return no negative
\* value for any input; weighted_borda returns one only when a confidence is negative.
C3_NonNegativeScores ==
    /\ op \in {"plurality", "borda_count", "copeland_score", "ranked_pairs"} =>
          \A v \in Values(result) : v >= 0
    /\ op = "weighted_borda" /\ (\E v \in Values(result) : v < 0) =>
          \E i \in DOMAIN rankings : rankings[i].confidence < 0

\* the rock-paper-scissors input of C4
IsCycleExample ==
    /\ candidates = <<"A", "B", "C">>
    /\ Len(rankings) = 3
    /\ rankings[1].rankings = <<"A", "B", "C">>
    /\ rankings[2].rankings = <<"B", "C", "A">>
    /\ rankings[3].rankings = <<"C", "A", "B">>

\* C4 as stated: on the rock-paper-scissors input ranked_pairs emits no edge, locks
\* no edge and returns 0.0 for all three candidates.
C4_CycleAllTied ==
    IsCycleExample =>
        /\ op \in {"locking", "ranked_pairs"} => pairs = <<>> /\ locked = {}
        /\ op = "ranked_pairs" => \A v \in Values(result) : v = 0

\* C4 as amended: on the rock-paper-scissors input every margin is 1 in absolute
\* value, the edges A->B, C->A, B->C are emitted in this order, A->B and C->A are
\* locked, B->C is refused, and the scores are A 1.0, B 0.0, C 1.0.
C4_CycleLocksTwo ==
    IsCycleExample =>
        /\ op \in {"locking", "ranked_pairs"} =>
              /\ pairs = <<<<"A", "B", 1>>, <<"C", "A", 1>>, <<"B", "C", 1>>>>
              /\ idx = 1 => locked = {}
              /\ idx = 2 => locked = {<<"A", "B">>}
              /\ idx >= 3 => locked = {<<"A", "B">>, <<"C", "A">>}
        /\ op = "ranked_pairs" =>
              /\ result.keys = <<"A", "B", "C">>
              /\ result.val["A"] = 1 /\ result.val["B"] = 0 /\ result.val["C"] = 1

C4_Witness == IsCycleExample /\ op = "ranked_pairs" /\ idx = 4

\* C5: with pairwise distinct candidates no copeland_score value exceeds the number
\* of candidates minus 1 (scores are in half points).
C5_CopelandBound ==
    op = "copeland_score" /\ Distinct(candidates) =>
        \A v \in Values(result) : v <= 2 * (Len(candidates) - 1)

\* three distinct candidates, one of them at the bound, another one not
C5_Witness ==
    /\ op = "copeland_score"
    /\ Distinct(candidates)
    /\ Len(candidates) = 3
    /\ \E v \in Values(result) : v = 2 * (Len(candidates) - 1)
    /\ \E v \in Values(result) : v = 1

\* w's first mention in the order comes before c's first mention
MentionedBefore(order, w, c) ==
    /\ Mentions(order, c) # {}
    /\ \E i \in Mentions(order, w) : \A k \in Mentions(order, c) : i < k

\* a strict majority of the preferences place w before c
MajorityPlaces(w, c) ==
    2 * Cardinality({i \in DOMAIN rankings : MentionedBefore(rankings[i].rankings, w, c)})
        > Len(rankings)

Rivals(w) == Range(candidates) \ {w}

RECURSIVE SumOver(_, _)
SumOver(f, S) ==
    IF S = {} THEN 0 ELSE LET x == CHOOSE y \in S : TRUE IN f[x] + SumOver(f, S \ {x})

\* the order mentions every candidate exactly once and nothing else
RanksAll(order, cands) ==
    /\ Len(order) = Len(cands)
    /\ Range(order) = Range(cands)
    /\ \A c \in Range(cands) : Cardinality(Mentions(order, c)) = 1

\* C7: when every order is a permutation of the n candidates, the borda_count scores
\* add up to (number of preferences) * n * (n - 1) / 2.
C7_BordaTotal ==
    op = "borda_count" /\ (\A i \in DOMAIN rankings : RanksAll(rankings[i].rankings, candidates)) =>
        2 * SumOver(result.val, DOMAIN result.val)
            = Len(rankings) * Len(candidates) * (Len(candidates) - 1)

C7_Witness ==
    /\ op = "borda_count"
    /\ Len(candidates) = 3
    /\ Len(rankings) = 3
    /\ \A i \in DOMAIN rankings : RanksAll(rankings[i].rankings, candidates)
    /\ rankings[1].rankings # rankings[2].rankings

\* C8: diversity_score returns 0.0 whenever all preferences have identical orders,
\* whatever their number and their length.
C8_UnanimityZero ==
    op = "diversity_score"
    /\ (\A i, j \in DOMAIN rankings : rankings[i].rankings = rankings[j].rankings) =>
        result = Zero

\* C9: the agreement matrix is symmetric, also when one judge name is carried by
\* several preferences.
C9_MatrixSymmetric ==
    op = "agreement_matrix" =>
        \A j1, j2 \in KeySet(result) : result.val[j1].val[j2] = result.val[j2].val[j1]

\* one judge carries two preferences that agree differently with a third one of
\* another judge, so which one fills the entry decides its value
C9_Witness ==
    /\ op = "agreement_matrix"
    /\ \E i, k, j \in DOMAIN rankings :
          /\ i < k
          /\ rankings[i].judge = rankings[k].judge
          /\ rankings[j].judge # rankings[i].judge
          /\ calculate_pairwise_agreement(rankings[i], rankings[j], candidates)
               # calculate_pairwise_agreement(rankings[k], rankings[j], candidates)

\* C10: every entry of the agreement matrix lies in [0,1] and every diagonal entry
\* is exactly 1.0, also when one judge name is carried by several preferences.
C10_MatrixBounds ==
    op = "agreement_matrix" =>
        /\ KeySet(result) = Range(Judges(rankings))
        /\ \A j1, j2 \in KeySet(result) :
              /\ FracLeq(Zero, result.val[j1].val[j2])
              /\ FracLeq(result.val[j1].val[j2], One)
        /\ \A j \in KeySet(result) : result.val[j].val[j] = One

\* one judge carries two preferences that fully disagree with each other, and an
\* entry strictly between 0 and 1 exists
C10_Witness ==
    /\ op = "agreement_matrix"
    /\ \E i, k \in DOMAIN rankings :
          /\ i # k
          /\ rankings[i].judge = rankings[k].judge
          /\ AgreeOuter(<<0, 0>>, rankings[i], rankings[k], candidates, 1)[2] > 0
          /\ calculate_pairwise_agreement(rankings[i], rankings[k], candidates) = Zero
    /\ \E j1, j2 \in KeySet(result) :
          result.val[j1].val[j2] # Zero /\ result.val[j1].val[j2] # One

\* the preferences that vote for c: a non-empty order with c in first position
VotesFor(c) ==
    {i \in DOMAIN rankings : rankings[i].rankings # <<>> /\ rankings[i].rankings[1] = c}

\* C15: plurality gives each candidate the number of preferences whose non-empty
\* order has it in first position; an empty order and a first place outside the
\* candidates are credited to nobody.
C15_PluralityCounts ==
    op = "plurality" =>
        /\ \A c \in Range(candidates) : result.val[c] = Cardinality(VotesFor(c))
        /\ SumOver(result.val, DOMAIN result.val)
             = Cardinality({i \in DOMAIN rankings : \E c \in Range(candidates) : i \in VotesFor(c)})

\* three ballots, one of them with a first place outside the candidates, the two
\* others for the same candidate, and a candidate without a vote
C15_Witness ==
    /\ op = "plurality"
    /\ Len(rankings) = 3
    /\ \E i \in DOMAIN rankings : rankings[i].rankings[1] \notin Range(candidates)
    /\ \E c \in Range(candidates) : result.val[c] = 2
    /\ \E c \in Range(candidates) : result.val[c] = 0

\* the points one order gives to c: n - 1 - p for every 0-based position p of c
PositionPoints(order, c, n) ==
    SumOver([k \in DOMAIN order |-> n - 1 - (k - 1)], Mentions(order, c))

\* the points all preferences give to c
BordaPoints(c, n) ==
    SumOver([i \in DOMAIN rankings |-> PositionPoints(rankings[i].rankings, c, n)],
            DOMAIN rankings)

\* C16: borda_count gives each candidate the sum over all preferences and all
\* positions p of the candidate in the order of n - 1 - p, n being the length of
\* the candidate list; nothing else is credited to anybody.
C16_BordaPoints ==
    op = "borda_count" =>
        \A c \in Range(candidates) : result.val[c] = BordaPoints(c, Len(candidates))

\* an order that mentions a candidate twice and an identifier outside the
\* candidates, and another candidate that it does not mention
C16_Witness ==
    /\ op = "borda_count"
    /\ \E i \in DOMAIN rankings :
          /\ \E c \in Range(candidates) : Cardinality(Mentions(rankings[i].rankings, c)) = 2
          /\ \E c \in Range(candidates) : Mentions(rankings[i].rankings, c) = {}
    /\ \E c \in Range(candidates) : result.val[c] # 0

\* the preferences that mention both c and d and have c's first mention first
Prefer(c, d) ==
    {i \in DOMAIN rankings :
        /\ Contains(rankings[i].rankings, c) /\ Contains(rankings[i].rankings, d)
        /\ IndexOf(rankings[i].rankings, c) < IndexOf(rankings[i].rankings, d)}

Beats(c, d) == Cardinality(Prefer(c, d)) > Cardinality(Prefer(d, c))

TiesWith(c, d) == Cardinality(Prefer(c, d)) = Cardinality(Prefer(d, c))

\* in half points: 1 point for every rival beaten, half a point for every tie
CopelandPoints(c) ==
    2 * Cardinality({d \in Rivals(c) : Beats(c, d)})
      + Cardinality({d \in Rivals(c) : TiesWith(c, d)})

C19_LockedVictories ==
    op = "ranked_pairs" =>
        \A c \in Range(candidates) : result.val[c] = Cardinality({e \in locked : e[1] = c})

\* a candidate with two locked victories, and one with a locked victory and a
\* locked defeat whose score is 1
C19_Witness ==
    /\ op = "ranked_pairs"
    /\ \E c \in Range(candidates) : result.val[c] = 2
    /\ \E e, f \in locked : e[1] = f[2] /\ result.val[e[1]] = 1

\* the points all preferences give to c, each multiplied by the confidence
WeightedPoints(c, n) ==
    SumOver([i \in DOMAIN rankings |->
               rankings[i].confidence * PositionPoints(rankings[i].rankings, c, n)],
            DOMAIN rankings)

\* C17: weighted_borda gives each candidate the sum over the preferences of
\* confidence * (n - 1 - p), the confidence taken as it is; when every confidence
\* is 1 the result is the borda_count result.
C17_WeightedPoints ==
    op = "weighted_borda" =>
        /\ \A c \in Range(candidates) : result.val[c] = WeightedPoints(c, Len(candidates))
        /\ (\A i \in DOMAIN rankings : rankings[i].confidence = 1) =>
              result = borda_count(rankings, candidates)

\* a preference with a negative confidence and one with a confidence above 1, each
\* paying a candidate: a negative score and a score of 2 from a single first place
\* among two candidates
C17_Witness ==
    /\ op = "weighted_borda"
    /\ Len(candidates) = 2
    /\ \E i, j \in DOMAIN rankings : rankings[i].confidence < 0 /\ rankings[j].confidence > 1
    /\ \E c \in Range(candidates) : result.val[c] < 0
    /\ \E c \in Range(candidates) : result.val[c] = 2

\* C13: get_winner returns a key of maximal score, the first such key in the
\* iteration order of the map, and the empty string for an empty map.
C13_WinnerFirstMaximum ==
    op = "get_winner" =>
        IF score_map.keys = <<>> THEN result = ""
        ELSE \E i \in DOMAIN score_map.keys :
                /\ result = score_map.keys[i]
                /\ \A k \in DOMAIN score_map.keys :
                      score_map.val[score_map.keys[k]] <= score_map.val[result]
                /\ \A k \in 1..(i - 1) :
                      score_map.val[score_map.keys[k]] < score_map.val[result]

\* the maximum is shared by two keys, and neither of them is the first key
C13_Witness ==
    /\ op = "get_winner"
    /\ \E i, j \in DOMAIN score_map.keys :
          /\ 1 < i /\ i < j
          /\ result = score_map.keys[i]
          /\ score_map.val[score_map.keys[j]] = score_map.val[result]
          /\ score_map.val[score_map.keys[1]] < score_map.val[result]

\* the position of key k in the iteration order of the map
KeyPosition(d, k) == IndexOf(d.keys, k)

\* C14: get_ranking returns a permutation of all keys in non-increasing score
\* order, keys of equal score in the iteration order of the map.
C14_RankingStable ==
    op = "get_ranking" =>
        /\ Len(result) = Len(score_map.keys)
        /\ Range(result) = KeySet(score_map)
        /\ \A i, j \in DOMAIN result :
              i < j =>
                 /\ score_map.val[result[i]] >= score_map.val[result[j]]
                 /\ score_map.val[result[i]] = score_map.val[result[j]] =>
                       KeyPosition(score_map, result[i]) < KeyPosition(score_map, result[j])

\* two keys of equal score with a key of higher score after them and a key of
\* lower score between them in the map
C14_Witness ==
    /\ op = "get_ranking"
    /\ \E a, b, c, d \in DOMAIN score_map.keys :
          /\ a < b /\ b < c /\ c < d
          /\ score_map.val[score_map.keys[a]] = score_map.val[score_map.keys[c]]
          /\ score_map.val[score_map.keys[b]] < score_map.val[score_map.keys[a]]
          /\ score_map.val[score_map.keys[d]] > score_map.val[score_map.keys[a]]
    /\ result # score_map.keys

\* the pairs of positions of the candidate list that both orders can compare
Comparable(r1, r2) ==
    {p \in (DOMAIN candidates) \X (DOMAIN candidates) :
        /\ p[1] < p[2]
        /\ \A c \in {candidates[p[1]], candidates[p[2]]} :
              Contains(r1.rankings, c) /\ Contains(r2.rankings, c)}

\* C11: a ratio with a zero denominator is 0.0: _calculate_pairwise_agreement
\* without a candidate pair that both orders contain, and diversity_score with
\* fewer than two preferences or without a pair of distinct judges.
C11_ZeroDenominator ==
    /\ op = "calculate_pairwise_agreement" /\ Comparable(rankings[1], rankings[2]) = {} =>
          result = Zero
    /\ op = "diversity_score" /\ (Len(rankings) < 2 \/ Cardinality(Range(Judges(rankings))) < 2) =>
          result = Zero

\* two preferences with the same non-empty order and two candidates, of which the
\* order mentions only one: nothing to compare
C11_Witness ==
    /\ op = "calculate_pairwise_agreement"
    /\ rankings[1].rankings = rankings[2].rankings
    /\ rankings[1].rankings # <<>>
    /\ Len(candidates) = 2
    /\ \E c \in Range(candidates) : Contains(rankings[1].rankings, c)
    /\ Comparable(rankings[1], rankings[2]) = {}
    /\ result = Zero

CoreFunctions ==
    ScoreMethods \cup {"get_winner", "get_ranking", "agreement_matrix", "diversity_score",
                       "method_agreement"}

\* C12: no call of a core function raises, whatever the preferences, the
\* candidates, the confidence or the score map are: every call returns.
C12_NeverRaises ==
    /\ op # "error"
    /\ op # "idle" => op \in CoreFunctions

\* method_agreement has returned for an empty candidate list and two preferences of
\* a confidence outside [0, 1], one of them with an empty order, the other one
\* with an identifier mentioned twice
C12_Witness ==
    /\ op = "method_agreement"
    /\ candidates = <<>>
    /\ Len(rankings) = 2
    /\ rankings[1].confidence \notin {0, 1}
    /\ \E i, j \in DOMAIN rankings :
          /\ rankings[i].rankings = <<>>
          /\ Len(rankings[j].rankings) = 2 /\ ~Distinct(rankings[j].rankings)
    /\ \A k \in DOMAIN result.val : result.val[k] = ""

\* what the function of this name returns for the shared arguments when it runs
\* alone
ValueAlone(name) ==
    CASE name = "plurality" -> plurality(rankings, candidates)
      [] name = "borda_count" -> borda_count(rankings, candidates)
      [] name = "weighted_borda" -> weighted_borda(rankings, candidates)
      [] name = "copeland_score" -> copeland_score(rankings, candidates)
      [] name = "ranked_pairs" -> ranked_pairs(rankings, candidates)
      [] name = "get_winner" -> get_winner(score_map)
      [] name = "get_ranking" -> get_ranking(score_map)
      [] name = "agreement_matrix" -> agreement_matrix(rankings, candidates)
      [] name = "method_agreement" -> method_agreement(rankings, candidates)
      [] name = "diversity_score" -> diversity_score(rankings, candidates)

\* every result a caller holds is the one of the call run alone
ResultsAsAlone ==
    \A t \in Callers : calls[t].op \in CoreFunctions => calls[t].result = ValueAlone(calls[t].op)

RECURSIVE FracSum(_, _)
FracSum(f, S) ==
    IF S = {} THEN Zero
    ELSE LET x == CHOOSE y \in S : TRUE IN FracAdd(f[x], FracSum(f, S \ {x}))

\* the unordered pairs of distinct judge names
JudgePairs == {P \in SUBSET Range(Judges(rankings)) : Cardinality(P) = 2}

\* the entry of the agreement matrix for an unordered pair of judges
PairEntry(m, P) ==
    LET j1 == CHOOSE j \in P : TRUE
        j2 == CHOOSE j \in P : j # j1
    IN  m.val[j1].val[j2]

\* C21: diversity_score is 1 minus the average of the agreement-matrix entries over
\* the unordered pairs of distinct judges, and always lies in [0,1].
C21_DiversityAverage ==
    op = "diversity_score" =>
        /\ FracLeq(Zero, result) /\ FracLeq(result, One)
        /\ JudgePairs # {} =>
              LET m == agreement_matrix(rankings, candidates)
                  total == FracSum([P \in JudgePairs |-> PairEntry(m, P)], JudgePairs)
              IN  result = FracSub(One, FracDivInt(total, Cardinality(JudgePairs)))

\* three judges whose three pairs do not all agree alike: a result strictly
\* between 0 and 1
C21_Witness ==
    /\ op = "diversity_score"
    /\ Cardinality(JudgePairs) = 3
    /\ result # Zero /\ result # One
    /\ \E P, Q \in JudgePairs :
          LET m == agreement_matrix(rankings, candidates) IN PairEntry(m, P) # PairEntry(m, Q)

\* the preferences of the call in which some mention of c1 comes before some
\* mention of c2
PrefersBefore(c1, c2) ==
    {i \in DOMAIN rankings :
        \E p, q \in DOMAIN rankings[i].rankings :
            p < q /\ rankings[i].rankings[p] = c1 /\ rankings[i].rankings[q] = c2}

\* C22: in the tally of ranked_pairs, tally[c1][c2] for distinct candidates is the
\* number of preferences in which c1 appears before c2: a preference adds at most 1
\* and the tally never exceeds the number of preferences, also when an order
\* mentions a candidate more than once.
C22_TallyCountsPreferences ==
    op = "pref" =>
        \A c1, c2 \in Range(candidates) :
            c1 # c2 =>
               /\ result[c1][c2] = Cardinality(PrefersBefore(c1, c2))
               /\ result[c1][c2] <= Len(rankings)

\* the lock-in is about to process the edge pairs[idx]
Processing == op = "locking" /\ idx <= Len(pairs)

\* C23: during the lock-in an edge winner -> loser is skipped if and only if, when it
\* is processed, the loser reaches the winner by a directed path of already locked
\* edges; otherwise it is added to the locked set; a locked edge is never removed.
C23_LockStep ==
    [][/\ locked \subseteq locked'
       /\ Processing =>
             LET winner == pairs[idx][1]
                 loser == pairs[idx][2]
             IN  IF <<loser, winner>> \in Closure(locked)
                 THEN locked' = locked
                 ELSE locked' = locked \cup {<<winner, loser>>}]_vars

\* two edges were added and the third one, which closes a cycle of three, was skipped
C23_Witness ==
    /\ op = "locking"
    /\ idx = 4
    /\ Cardinality(locked) = 2
    /\ <<pairs[3][1], pairs[3][2]>> \notin locked
    /\ <<pairs[3][2], pairs[3][1]>> \notin locked
    /\ <<pairs[3][2], pairs[3][1]>> \in Closure(locked)

\* where the candidate list enumerates the pair of an edge: the positions of its
\* two candidates, the earlier one first
EdgeKey(e) ==
    LET p == IndexOf(candidates, e[1])
        q == IndexOf(candidates, e[2])
    IN  IF p < q THEN <<p, q>> ELSE <<q, p>>

\* the pair of k is enumerated no later than the pair of m
KeyLeq(k, m) == k[1] < m[1] \/ (k[1] = m[1] /\ k[2] <= m[2])

\* C24: ranked_pairs processes the edges in non-increasing margin order, edges of
\* equal margin in the order in which the candidate list enumerates their pairs;
\* hence the locked set and the scores are a function of the preferences and the
\* candidate list, whatever the order in which the set of locked edges is iterated.
C24_ProcessingOrder ==
    /\ op \in {"locking", "ranked_pairs"} =>
          LET emitted == calculate_margin_pairs(candidates,
                                                build_preference_matrix(rankings, candidates))
          IN  /\ Len(pairs) = Len(emitted)
              /\ Range(pairs) = Range(emitted)
              /\ \A i, j \in DOMAIN pairs :
                    i < j =>
                       /\ pairs[i][3] >= pairs[j][3]
                       /\ pairs[i][3] = pairs[j][3] => KeyLeq(EdgeKey(pairs[i]), EdgeKey(pairs[j]))
    /\ op = "ranked_pairs" =>
          /\ locked = lock_pairs_without_cycles(sorted_pairs(rankings, candidates))
          /\ result = ranked_pairs(rankings, candidates)

\* a call has returned after three edges: the first of a larger margin than the
\* other two, which are level, and at least two of them locked
C24_Witness ==
    /\ op = "ranked_pairs"
    /\ Len(pairs) = 3
    /\ pairs[1][3] > pairs[2][3]
    /\ pairs[2][3] = pairs[3][3]
    /\ pairs[2] # pairs[3]
    /\ Cardinality(locked) >= 2

\* the positions of the emitted edges between the candidates a and b
EdgesBetween(a, b) == {k \in DOMAIN pairs : {pairs[k][1], pairs[k][2]} = {a, b}}

\* no edge for level tallies, otherwise the single edge from the larger tally to the
\* smaller one with the difference as its margin
OneEdge(a, b) ==
    LET edges == EdgesBetween(a, b)
    IN  /\ Cardinality(edges) <= 1
        /\ result[a][b] = result[b][a] => edges = {}
        /\ result[a][b] > result[b][a] =>
              \E k \in edges : pairs[k] = <<a, b, result[a][b] - result[b][a]>>

C26_CopelandTotal ==
    op = "copeland_score" /\ Distinct(candidates) =>
        SumOver(result.val, Range(candidates)) = Len(candidates) * (Len(candidates) - 1)

\* three distinct candidates, one pair decided and one pair tied with votes on
\* both sides
C26_Witness ==
    /\ op = "copeland_score"
    /\ Distinct(candidates)
    /\ Len(candidates) = 3
    /\ \E c, d \in Range(candidates) : c # d /\ Beats(c, d)
    /\ \E c, d \in Range(candidates) : c # d /\ TiesWith(c, d) /\ Prefer(c, d) # {}
    /\ \E c \in Range(candidates) : result.val[c] % 2 = 1

\* the preferences that place w before x, minus those that place x before w
Margin(w, x) == Cardinality(PrefersBefore(w, x)) - Cardinality(PrefersBefore(x, w))

\* every preference mentions no identifier twice
DuplicateFree == \A i \in DOMAIN rankings : Distinct(rankings[i].rankings)

\* C27: if every preference is a duplicate-free order and a candidate W has a
\* positive margin over every other candidate, ranked_pairs locks every edge from W
\* to another candidate, W scores n - 1, every other candidate at most n - 2, and
\* get_winner returns W (n the number of candidates).
C27_CondorcetWinner ==
    op = "ranked_pairs" /\ DuplicateFree =>
        \A W \in Range(candidates) :
            (\A X \in Rivals(W) : Margin(W, X) > 0) =>
               /\ \A X \in Rivals(W) : <<W, X>> \in locked
               /\ result.val[W] = Cardinality(Range(candidates)) - 1
               /\ \A X \in Rivals(W) : result.val[X] <= Cardinality(Range(candidates)) - 2
               /\ get_winner(result) = W

\* a candidate that is not the first of three beats the other two, one of which
\* beats the other
C27_Witness ==
    /\ op = "ranked_pairs"
    /\ DuplicateFree
    /\ Len(candidates) = 3 /\ Distinct(candidates)
    /\ \E W \in Range(candidates) :
          /\ W # candidates[1]
          /\ \A X \in Rivals(W) : Margin(W, X) > 0
          /\ result.val[W] = 2
          /\ \E X \in Rivals(W) : result.val[X] = 1

\* the place of a status in QUEUED -> PROCESSING -> (COMPLETED or FAILED)
StatusRank(status) ==
    CASE status = QUEUED -> 0
      [] status = PROCESSING -> 1
      [] status \in {COMPLETED, FAILED} -> 2

Terminal(job) == job.status \in {COMPLETED, FAILED}

\* C28: between any two steps of the event loop, which is when another coroutine can
\* look, the status of a job only moves forward through QUEUED -> PROCESSING ->
\* (COMPLETED or FAILED): a job enters the registry QUEUED, its status never returns
\* to an earlier one and never changes once it is COMPLETED or FAILED; and
\* completed_at is set whenever the status is COMPLETED or FAILED.
C28_StatusForward ==
    /\ [][\A j \in DOMAIN jobs' :
            IF j \in DOMAIN jobs
            THEN /\ StatusRank(jobs'[j].status) >= StatusRank(jobs[j].status)
                 /\ Terminal(jobs[j]) => jobs'[j].status = jobs[j].status
            ELSE jobs'[j].status = QUEUED]_vars
    /\ [](\A j \in DOMAIN jobs : Terminal(jobs[j]) => jobs[j].completed_at # None)

\* one job is COMPLETED, another is PROCESSING with a result in, and a deliberation
\* is FAILED although its results were stored: its result_callback raised after
\* COMPLETED had been assigned
C28_Witness ==
    \E j, k \in DOMAIN jobs :
        /\ j # k
        /\ \/ jobs[j].status = COMPLETED /\ jobs[j].completed_at # None
           \/ jobs[j].status = PROCESSING /\ jobs[j].results \notin {None, Some(<<>>)}
        /\ tasks[k].kind = "deliberation"
        /\ jobs[k].status = FAILED
        /\ jobs[k].results \notin {None, Some(<<>>)}
        /\ jobs[k].completed_at # None

\* the jobs that a step takes out of the registry
Removed == DOMAIN jobs \ DOMAIN jobs'

\* C29: cleanup_old_jobs removes only jobs whose status is COMPLETED or FAILED and
\* whose completed_at is older than max_age_seconds; a QUEUED or PROCESSING job is
\* never removed, whatever its age, and every other job stays in the registry
\* unchanged.
C29_CleanupRemovesOld ==
    [][/\ \A j \in Removed :
             /\ jobs[j].status \in {COMPLETED, FAILED}
             /\ jobs[j].completed_at # None
             /\ now - jobs[j].completed_at[1] > CleanupAge
       /\ Removed # {} => \A j \in DOMAIN jobs \ Removed : jobs'[j] = jobs[j]]_vars

\* cleanup_old_jobs has removed the first job and kept the second, which was started
\* as long ago and is still PROCESSING, and no removable job is left
C29_Witness ==
    /\ DOMAIN tasks = {JobNames[1], JobNames[2]}
    /\ DOMAIN jobs = {JobNames[2]}
    /\ jobs[JobNames[2]].status = PROCESSING
    /\ jobs[JobNames[2]].started_at = Some(0)
    /\ now > CleanupAge

\* the items of the partial_results events of a stream, concatenated
RECURSIVE Items(_)
Items(events) ==
    IF events = <<>> THEN <<>>
    ELSE (IF Head(events).event = "partial_results" THEN Head(events).data.items ELSE <<>>)
         \o Items(Tail(events))

ResultsOf(job) == IF job.results = None THEN <<>> ELSE job.results[1]

IsPrefix(s, t) == Len(s) <= Len(t) /\ SubSeq(t, 1, Len(s)) = s

\* C30: however the progress of a job interleaves with the rounds of
\* automation_event_generator, the items of the partial_results events, concatenated
\* in emission order, are the results of the job, each entry once and in order:
\* after every round the results as they were in that round, in between a prefix of
\* them; and the generator returns in the first round that finds the job COMPLETED,
\* FAILED or missing from the registry, and in no other round.
C30_StreamResults ==
    /\ [][/\ stream'.polls = stream.polls + 1 =>
                LET missing == stream.job_id \notin DOMAIN jobs
                IN  /\ stream'.pc = "returned" <=> (missing \/ Terminal(jobs[stream.job_id]))
                    /\ ~missing => Items(stream'.sent) = ResultsOf(jobs[stream.job_id])
                    /\ missing => Items(stream'.sent) = Items(stream.sent)
          /\ (stream'.pc = "returned" /\ stream.pc # "returned") =>
                stream'.polls = stream.polls + 1]_vars
    /\ [](stream.job_id \in DOMAIN jobs =>
             IsPrefix(Items(stream.sent), ResultsOf(jobs[stream.job_id])))

\* the stream has ended on a COMPLETED job after two partial_results events of one
\* item each, the first sent while the job was PROCESSING
C30_Witness ==
    /\ stream.pc = "returned"
    /\ stream.job_id \in DOMAIN jobs
    /\ jobs[stream.job_id].status = COMPLETED
    /\ Len(Items(stream.sent)) = 2
    /\ Cardinality({k \in DOMAIN stream.sent : stream.sent[k].event = "partial_results"}) = 2

====
